---- MODULE Spec2Model ----
(***************************************************************************)
(* A model of the cryptographic artifact bundling subsystem of             *)
(* src/src/openfhe/crypto-ctxt-ser-des.service.ts:                         *)
(*   - the chunked transfer protocol (createDownloadableFileViaWorker),    *)
(*   - the Serializer (SchemeSwitchingDataSerializer.Serialize),           *)
(*   - the Archiver (createDownloadableFile / JSZip lookups, uploadFile),  *)
(*   - the files of the backend variant (writeBuffersToFile),              *)
(*   - the Deserializer (SchemeSwitchingDataDeserializer.deserialize).     *)
(* The OpenFHE engine, JSZip and the background worker are collaborators:  *)
(* the engine's exports are tagged values, an archive is its entry list,   *)
(* and the worker is the set of messages its contract lets it send.        *)
(***************************************************************************)
EXTENDS Integers, Sequences, FiniteSets, TLC

VARIABLES
    \* ---- chunked transfer (one createDownloadableFileViaWorker call) ----
    xferPc,       \* "init" | "listening" | "noWorker"
    totalChunks,  \* the number of chunks the worker split the archive into
    chunks,       \* the caller's slot array: a function on the indices set so far
    promise,      \* the promise returned by createDownloadableFileViaWorker
    delivered,    \* history: the worker messages handed to onmessage, in order
    \* ---- serializer instance (SchemeSwitchingDataSerializer) ----
    ser,          \* module, cryptoContext, publicKey, secretKey, binFHECryptoContext, FHEWtoCKKSSwitchKey
    engineKeys,   \* BTKeyMap.keys(): the bootstrap indices in the order the engine reports them
    buffers,      \* this.buffers (CryptoContextBuffers)
    serCalls,     \* number of Serialize calls made so far
    serResult,    \* outcome of the last Serialize call: NotCalled, Returned or the Error thrown
    buffersBefore,\* history: this.buffers when the last Serialize call started
    \* ---- archive ----
    archive,      \* the zip file handed to deserialize: its entry list
    archiveFrom,  \* "none" (no file yet) | "complete" (packed after a Serialize that returned) | "partial"
    packedFrom,   \* history: this.buffers when createDownloadableFile built the archive
    dropped,      \* history: the names of the entries the file lost on its way
    uploadResult, \* history: the last uploadFile call: the file read, this.buffers before and after
    files,        \* the fs.writeFileSync calls of the last writeBuffersToFile: path and data, in order
    filesOf,      \* history: this.buffers when writeBuffersToFile was last called
    \* ---- deserializer instance (SchemeSwitchingDataDeserializer) ----
    des,          \* cryptoContext, publicKey, secretKey, FHEWtoCKKSSwitchKey, binFHECryptoContext
    desPc,        \* position of deserialize: "idle", the next step, "returned" or "threw"
    desLocal,     \* locals of deserialize: BTKey, indices, loop position, theKey
    desError,     \* the Error deserialize threw to its caller
    desCaught,    \* history: the value that reached the catch block of deserialize
    desBefore,    \* history: the deserializer's fields when deserialize was called
    engineCalls,  \* history: the engine operations deserialize invoked, in order
    engineFaults, \* history: number of steps at which the engine rejected its input
    \* ---- deserializer instance used by deserializeInBackend ----
    backend,      \* cryptoContext, publicKey, secretKey, FHEWtoCKKSSwitchKey, binFHECryptoContext
    backendPc,    \* "idle" | "returned" | "threw"
    backendError, \* the Error deserializeInBackend threw to its caller
    backendCaught,\* history: the value that reached its catch block
    \* ---- downloads ----
    downloadPromise,  \* the promise returned by downloadFile
    downloadFailed,   \* history: archive creation failed inside downloadFile
    viaWorkerPromise, \* the promise returned by downloadFileViaWorker
    viaWorkerAt,      \* history: messages delivered when its await ended
    saved,            \* the saveAs calls made: blob and file name, in order
    \* ---- a second createDownloadableFileViaWorker call on the same worker ----
    replaced,     \* workRef.onmessage has been assigned again by the second call
    totalChunks2, \* the number of chunks of the second request's archive
    chunks2,      \* the second call's slot array
    promise2,     \* the promise the second call returned
    delivered2,   \* history: the messages its handler got, each with the request it answers
    \* ---- OpenFHE instance (openfheCommon.service.ts): one number encrypted and read back ----
    numInput,     \* the number handed to encryptNumber
    numSlots,     \* this.slots
    numPc,        \* "plain" | "encrypted" | "decrypted" | "decoded"
    numCipher,    \* the ciphertext encryptNumber returned
    numPlain,     \* the plaintext cc.Decrypt returned
    numDecoded,   \* the string decodeNumberPlainText returned
    \* ---- encrypt-csv.ts: one run of the command line tool ----
    csvFile,      \* the input CSV: its header line and its rows
    skipColumns,  \* the -k option
    cliPc,        \* "start" | "wired" | "headers" | "ended"
    headerKeys,   \* processCSV's headerKeys array
    rows,         \* processCSV's rows array
    processPromise, \* the promise processCSV returned, which main awaits
    mainExit,     \* "running" | "returned" | "exit 1": how main ended
    endPromise,   \* the promise of the async 'end' handler, which nobody holds
    keyGens,      \* number of generateKeyPair calls made
    rowKeys,      \* history: the key pair the map callback generated for each row
    output        \* the output CSV writeRecords wrote: header and records

xferVars == <<xferPc, totalChunks, chunks, promise, delivered>>

serVars == <<ser, engineKeys, buffers, serCalls, serResult, buffersBefore>>

archiveVars ==
    <<archive, archiveFrom, packedFrom, dropped, uploadResult, files, filesOf>>

desVars ==
    <<des, desPc, desLocal, desError, desCaught, desBefore, engineCalls,
      engineFaults>>

backendVars == <<backend, backendPc, backendError, backendCaught>>

\* the state beside the bundle and its first transfer
downloadVars ==
    <<downloadPromise, downloadFailed, viaWorkerPromise, viaWorkerAt, saved>>

secondVars == <<replaced, totalChunks2, chunks2, promise2, delivered2>>

numVars == <<numInput, numSlots, numPc, numCipher, numPlain, numDecoded>>

cliVars ==
    <<csvFile, skipColumns, cliPc, headerKeys, rows, processPromise, mainExit,
      endPromise, keyGens, rowKeys, output>>

outerVars == <<backendVars, downloadVars, secondVars, numVars, cliVars>>

vars == <<xferVars, serVars, archiveVars, desVars, outerVars>>

\* ------------------------------------------------------------------ bounds
MaxChunks == 3
MaxMsgs == 4
MaxIndex == 1       \* bootstrap indices are drawn from 0 .. MaxIndex
MaxKeys == 2        \* at most this many entries in the engine's bootstrap map
MaxNumber == 3      \* the numbers encrypted are -MaxNumber .. MaxNumber
MaxSlots == 4       \* slot counts are 1 .. MaxSlots
MaxRows == 2        \* the input CSV has at most this many rows
MaxSerialize == 2   \* Serialize calls on one serializer instance

\* ------------------------------------------------------------ JS helpers
\* null / undefined / an empty engine result: the one falsy value of the model
Null == [kind |-> "null"]

\* new Error(message)
Error(message) == [kind |-> "Error", message |-> message]

SetMax(S) == CHOOSE m \in S : \A k \in S : k <= m

\* Array.prototype.length of a sparse array: highest index set, plus one
ArrayLength(arr) == IF DOMAIN arr = {} THEN 0 ELSE SetMax(DOMAIN arr) + 1

\* arr[index] = value
ArraySet(arr, index, value) ==
    [k \in (DOMAIN arr) \cup {index} |-> IF k = index THEN value ELSE arr[k]]

\* the bytes chunks.forEach writes into fullArray: the slots that are set, by
\* ascending index (forEach and reduce skip the holes of a sparse array)
RECURSIVE ConcatFrom(_, _)
ConcatFrom(arr, k) ==
    IF k >= ArrayLength(arr) THEN <<>>
    ELSE (IF k \in DOMAIN arr THEN arr[k] ELSE <<>>) \o ConcatFrom(arr, k + 1)

\* Promise resolve / reject: only the first settlement has an effect
Resolve(p, value) ==
    IF p.state = "pending" THEN [state |-> "fulfilled", value |-> value] ELSE p

Reject(p, err) ==
    IF p.state = "pending" THEN [state |-> "rejected", reason |-> err] ELSE p

\* --------------------------------------------------- DataAndLocation
dataDirectory == "demoData"
cryptoContextFile == "cryptocontext.txt"
pubKeyFile == "key_pub.txt"
secretKeyFile == "key_secret.txt"
multKeyFile == "key_mult.txt"
rotKeyFile == "key_rot.txt"
FHEWtoCKKSSwitchKeyFile == "key_switch_fhew_ckks.txt"
binFHECryptoContextFile == "binfhe_cryptocontext.txt"
binFHEBootRefreshKeyFile == "key_binfhe_boot_refresh.txt"
binFHEBootRotKeyFile == "key_binfhe_boot_rot.txt"
baseRefreshKeyFile == "key_refresh.txt"
baseSwitchingKeyFile == "key_switching.txt"
keyIndexFile == "key_indices.txt"

\* the initial value of DataAndLocation.buffers
EmptyBuffers ==
    [cryptoContextBuffer |-> Null, publicKeyBuffer |-> Null,
     secretKeyBuffer |-> Null, evalMultKeyBuffer |-> Null,
     automorphismKeyBuffer |-> Null, FHEWtoCKKSSwitchKeyBuffer |-> Null,
     binfheCryptoContextBuffer |-> Null, binFHEBootRefreshKeyBuffer |-> Null,
     binFHEBootRotKeyBuffer |-> Null, keyIndexBuffer |-> Null,
     EvalKeyMappings |-> <<>>]

\* ------------------------------------------------------- the engine
\* Engine objects are records; an export wraps the object in a Buffer tagged
\* with its type, an import of a Buffer of the right type yields the object.
Module == [kind |-> "Module", id |-> "openfhe"]
PublicKey == [kind |-> "PublicKey", id |-> "pk"]
SecretKey == [kind |-> "PrivateKey", id |-> "sk"]
MultKey == [kind |-> "EvalMultKey", id |-> "mult"]
RotKey == [kind |-> "EvalAutomorphismKey", id |-> "rot"]
SwkFC == [kind |-> "SwkFC", id |-> "swk"]
RefreshKey(id) == [kind |-> "RefreshKey", id |-> id]
SwitchingKey(id) == [kind |-> "SwitchingKey", id |-> id]

\* a RingGSWBTKey
BTKeyOf(bs, ks) == [BSkey |-> bs, KSkey |-> ks]

\* the key pair the engine holds at bootstrap index i
BootKey(i) ==
    BTKeyOf(RefreshKey("bs" \o ToString(i)), SwitchingKey("ks" \o ToString(i)))

\* a BinFHE context with its primary bootstrap key and its bootstrap map
BinCC(btKey, btKeyMap) ==
    [kind |-> "BinFHECryptoContext", id |-> "bincc", BTKey |-> btKey,
     BTKeyMap |-> btKeyMap]

\* a crypto context with the keys installed on it
CC(mult, rot, swk, bin) ==
    [kind |-> "CryptoContext", id |-> "cc", EvalMultKey |-> mult,
     EvalAutomorphismKey |-> rot, SwkFC |-> swk, BinCC |-> bin]

\* the engine's secondary context: bootstrap map over the indices in keys
EngineBinCC(keys) ==
    BinCC(BTKeyOf(RefreshKey("refresh"), SwitchingKey("switch")),
          [i \in {keys[k] : k \in 1 .. Len(keys)} |-> BootKey(i)])

\* the fully-initialised engine context
EngineCC(keys) == CC(MultKey, RotKey, SwkFC, EngineBinCC(keys))

\* what the serialized form of a context holds: the context without the keys
\* and the secondary context, which travel in entries of their own
BareCC(cc) ==
    [cc EXCEPT !.EvalMultKey = Null, !.EvalAutomorphismKey = Null,
               !.SwkFC = Null, !.BinCC = Null]

BareBinCC(bin) == [bin EXCEPT !.BTKey = Null, !.BTKeyMap = <<>>]

\* sequences over S without repetition, of length at most n
RECURSIVE InjectiveSeqs(_, _)
InjectiveSeqs(S, n) ==
    IF n = 0 THEN {<<>>}
    ELSE LET shorter == InjectiveSeqs(S, n - 1) IN
         shorter \cup
         {r \in {Append(q, x) : q \in shorter, x \in S} :
             \A j, k \in 1 .. Len(r) : r[j] = r[k] => j = k}

Buffer(type, content) == [kind |-> "Buffer", type |-> type, content |-> content]

\* Serialize<T>ToBuffer(obj, SERTYPE)
EngineSerialize(type, obj) == Buffer(type, obj)

\* Deserialize<T>FromBuffer(buffer, SERTYPE): falsy when the bytes are no <T>
EngineDeserialize(type, buffer) ==
    IF buffer.kind = "Buffer" /\ buffer.type = type THEN buffer.content ELSE Null

\* getExceptionMessage(code)
ExceptionMessage(code) == "openfhe exception " \o ToString(code)

\* ---------------------------------------------------------- Serializer
\* new SchemeSwitchingDataSerializer(cryptoContext0, publicKey0, privateKey0),
\* the caller then setting this.module to module0
NewSerializer(module0, cryptoContext0, publicKey0, privateKey0) ==
    [module |-> module0,
     cryptoContext |-> cryptoContext0,
     publicKey |-> publicKey0,
     secretKey |-> privateKey0,
     binFHECryptoContext |->
         IF cryptoContext0 # Null THEN cryptoContext0.BinCC ELSE Null,
     FHEWtoCKKSSwitchKey |->
         IF cryptoContext0 # Null THEN cryptoContext0.SwkFC ELSE Null]

\* the engine export that fails (returns an empty buffer) during one Serialize
\* call: none, the export filling a named buffer, or a half of the pos-th
\* bootstrap pair
NoFail == [what |-> "none", pos |-> 0]

FailChoices(keys) ==
    {NoFail}
        \cup {[what |-> f, pos |-> 0] :
                 f \in {"cryptoContextBuffer", "publicKeyBuffer", "secretKeyBuffer",
                        "evalMultKeyBuffer", "automorphismKeyBuffer",
                        "FHEWtoCKKSSwitchKeyBuffer", "binfheCryptoContextBuffer",
                        "binFHEBootRefreshKeyBuffer", "binFHEBootRotKeyBuffer",
                        "keyIndexBuffer"}}
        \cup {[what |-> h, pos |-> k] : h \in {"BSkey", "KSkey"}, k \in 1 .. Len(keys)}

\* the nine named buffers Serialize fills before the bootstrap loop, in the
\* order of the code, each with the message of the error thrown when empty
TopLevel ==
    << [field |-> "cryptoContextBuffer",
        error |-> "Exception writing cryptocontext to buffer"],
       [field |-> "publicKeyBuffer",
        error |-> "Exception writing publicKey to buffer"],
       [field |-> "secretKeyBuffer",
        error |-> "Exception writing secretKey to buffer"],
       [field |-> "evalMultKeyBuffer",
        error |-> "Error writing eval mult keys to buffer"],
       [field |-> "automorphismKeyBuffer",
        error |-> "Error writing rotation keys to buffer"],
       [field |-> "FHEWtoCKKSSwitchKeyBuffer",
        error |-> "Exception writing FHEWtoCKKSSwitchKey to buffer"],
       [field |-> "binfheCryptoContextBuffer",
        error |-> "Exception writing binFHECryptoContext to buffer"],
       [field |-> "binFHEBootRefreshKeyBuffer",
        error |-> "Exception writing binFHEBootRefreshKey to buffer"],
       [field |-> "binFHEBootRotKeyBuffer",
        error |-> "Exception writing binFHEBootRotKey to buffer"] >>

\* what the engine export behind a named buffer returns for serializer s
Export(field, s) ==
    CASE field = "cryptoContextBuffer" ->
           EngineSerialize("CryptoContext", BareCC(s.cryptoContext))
      [] field = "publicKeyBuffer" -> EngineSerialize("PublicKey", s.publicKey)
      [] field = "secretKeyBuffer" -> EngineSerialize("PrivateKey", s.secretKey)
      [] field = "evalMultKeyBuffer" ->
           EngineSerialize("EvalMultKey", s.cryptoContext.EvalMultKey)
      [] field = "automorphismKeyBuffer" ->
           EngineSerialize("EvalAutomorphismKey",
                           s.cryptoContext.EvalAutomorphismKey)
      [] field = "FHEWtoCKKSSwitchKeyBuffer" ->
           EngineSerialize("SwkFC", s.FHEWtoCKKSSwitchKey)
      [] field = "binfheCryptoContextBuffer" ->
           EngineSerialize("BinFHECryptoContext",
                           BareBinCC(s.binFHECryptoContext))
      [] field = "binFHEBootRefreshKeyBuffer" ->
           EngineSerialize("RefreshKey", s.binFHECryptoContext.BTKey.BSkey)
      [] field = "binFHEBootRotKeyBuffer" ->
           EngineSerialize("SwitchingKey", s.binFHECryptoContext.BTKey.KSkey)

\* the outcome of a Serialize step: the buffers it leaves and what it threw
Outcome(b, err) == [buffers |-> b, threw |-> err]

Returned == [kind |-> "Returned"]
NotCalled == [kind |-> "NotCalled"]

\* an index list serialized back to front
SerializeIndicesReversed(b, indices, fail) ==
    LET reversed == [k \in 1 .. Len(indices) |-> indices[Len(indices) + 1 - k]]
        v == IF fail.what = "keyIndexBuffer" THEN Null
             ELSE EngineSerialize("SeedSeqVector",
                                  [kind |-> "VectorUint32", items |-> reversed])
        b2 == [b EXCEPT !.keyIndexBuffer = v]
    IN IF v = Null
       THEN Outcome(b2, Error("Exception writing indices to buffer"))
       ELSE Outcome(b2, Returned)

\* SerializeSeedSeqVector(indices) into keyIndexBuffer, after the loop
SerializeIndices(b, indices, fail) ==
    LET v == IF fail.what = "keyIndexBuffer" THEN Null
             ELSE EngineSerialize("SeedSeqVector",
                                  [kind |-> "VectorUint32", items |-> indices])
        b2 == [b EXCEPT !.keyIndexBuffer = v]
    IN IF v = Null
       THEN Outcome(b2, Error("Exception writing indices to buffer"))
       ELSE Outcome(b2, Returned)

\* one EvalKeyMappings element {[thekey]: {BSkey, KSkey}}: the property name
\* is the index as a string
KeyMapping(thekey, bs, ks) == [key |-> ToString(thekey), BSkey |-> bs, KSkey |-> ks]

\* the loop over BTKeyMapArr from position k on
RECURSIVE SerializeBootKeys(_, _, _, _, _, _)
SerializeBootKeys(b, indices, k, s, keys, fail) ==
    IF k > Len(keys) THEN SerializeIndices(b, indices, fail)
    ELSE LET thekey == keys[k]
             binFHEBSkeyKeyBuffer ==
                 IF fail = [what |-> "BSkey", pos |-> k] THEN Null
                 ELSE EngineSerialize("RefreshKey",
                          s.binFHECryptoContext.BTKeyMap[thekey].BSkey)
             binFHEKSkeyBuffer ==
                 IF fail = [what |-> "KSkey", pos |-> k] THEN Null
                 ELSE EngineSerialize("SwitchingKey",
                          s.binFHECryptoContext.BTKeyMap[thekey].KSkey)
         IN IF binFHEBSkeyKeyBuffer = Null
            THEN Outcome(b, Error("Exception writing BSkey to buffer"))
            ELSE IF binFHEKSkeyBuffer = Null
            THEN Outcome(b, Error("Exception writing KSkey to buffer"))
            ELSE SerializeBootKeys(
                     [b EXCEPT !.EvalKeyMappings =
                         Append(@, KeyMapping(thekey, binFHEBSkeyKeyBuffer,
                                              binFHEKSkeyBuffer))],
                     Append(indices, thekey), k + 1, s, keys, fail)

\* the named buffers from the k-th on: each is assigned, then tested
RECURSIVE SerializeTopLevel(_, _, _, _, _)
SerializeTopLevel(b, k, s, keys, fail) ==
    IF k > Len(TopLevel) THEN SerializeBootKeys(b, <<>>, 1, s, keys, fail)
    ELSE LET v == IF fail.what = TopLevel[k].field THEN Null
                  ELSE Export(TopLevel[k].field, s)
             b2 == [b EXCEPT ![TopLevel[k].field] = v]
         IN IF v = Null THEN Outcome(b2, Error(TopLevel[k].error))
            ELSE SerializeTopLevel(b2, k + 1, s, keys, fail)

\* a Serialize that tests the secret key before the public key
SerializeOutcomeKeysSwapped(b, s, keys, fail) ==
    IF s.module = Null THEN Outcome(b, Error("OPENFHE module is None"))
    ELSE IF s.cryptoContext = Null THEN Outcome(b, Error("cryptoContext is None"))
    ELSE IF s.secretKey = Null THEN Outcome(b, Error("secretKey is None"))
    ELSE IF s.publicKey = Null THEN Outcome(b, Error("publicKey is None"))
    ELSE IF s.binFHECryptoContext = Null
    THEN Outcome(b, Error("binFHECryptoContext is None"))
    ELSE IF s.FHEWtoCKKSSwitchKey = Null
    THEN Outcome(b, Error("FHEWtoCKKSSwitchKey is None"))
    ELSE SerializeTopLevel(b, 1, s, keys, fail)

\* Serialize(): the precondition checks, then the exports
SerializeOutcome(b, s, keys, fail) ==
    IF s.module = Null THEN Outcome(b, Error("OPENFHE module is None"))
    ELSE IF s.cryptoContext = Null THEN Outcome(b, Error("cryptoContext is None"))
    ELSE IF s.publicKey = Null THEN Outcome(b, Error("publicKey is None"))
    ELSE IF s.secretKey = Null THEN Outcome(b, Error("secretKey is None"))
    ELSE IF s.binFHECryptoContext = Null
    THEN Outcome(b, Error("binFHECryptoContext is None"))
    ELSE IF s.FHEWtoCKKSSwitchKey = Null
    THEN Outcome(b, Error("FHEWtoCKKSSwitchKey is None"))
    ELSE SerializeTopLevel(b, 1, s, keys, fail)

\* a call of Serialize() during which the engine export `fail` comes back empty
Serialize(fail) ==
    /\ serCalls < MaxSerialize
    /\ LET out == SerializeOutcome(buffers, ser, engineKeys, fail) IN
       /\ buffers' = out.buffers
       /\ serResult' = out.threw
    /\ buffersBefore' = buffers
    /\ serCalls' = serCalls + 1
    /\ UNCHANGED <<ser, engineKeys, xferVars, archiveVars, desVars, outerVars>>

\* ------------------------------------------------------------ Archiver
\* A zip archive is the list of its entries, each a name and its bytes.

\* the position of the entry called name, 0 when there is none
ZipIndex(zip, name) ==
    IF \E k \in 1 .. Len(zip) : zip[k].name = name
    THEN CHOOSE k \in 1 .. Len(zip) : zip[k].name = name
    ELSE 0

\* zip.file(name, data): adds the entry, replacing one of the same name
ZipFile(zip, name, data) ==
    IF ZipIndex(zip, name) = 0
    THEN Append(zip, [name |-> name, data |-> data])
    ELSE [zip EXCEPT ![ZipIndex(zip, name)] = [name |-> name, data |-> data]]

\* zip.file(name): the entry's bytes, or null
ZipLookup(zip, name) ==
    IF ZipIndex(zip, name) = 0 THEN Null ELSE zip[ZipIndex(zip, name)].data

\* an addBufferToZip without the test of the buffer: an absent buffer gets an
\* entry too
addBufferToZipAlways(zip, buffer, fileName) == ZipFile(zip, fileName, buffer)

\* addBufferToZip(buffer, fileName)
addBufferToZip(zip, buffer, fileName) ==
    IF buffer # Null /\ fileName # "" THEN ZipFile(zip, fileName, buffer) ELSE zip

\* the forEach over EvalKeyMappings of createDownloadableFile, from position k
RECURSIVE AddKeyMappings(_, _, _)
AddKeyMappings(zip, mappings, k) ==
    IF k > Len(mappings) THEN zip
    ELSE LET key == mappings[k].key IN
         AddKeyMappings(
             ZipFile(ZipFile(zip, key \o "_" \o baseRefreshKeyFile,
                             mappings[k].BSkey),
                     key \o "_" \o baseSwitchingKeyFile, mappings[k].KSkey),
             mappings, k + 1)

\* the archive createDownloadableFile builds from this.buffers
ZipOfBuffers(b) ==
    LET z1 == addBufferToZip(<<>>, b.cryptoContextBuffer, cryptoContextFile)
        z2 == addBufferToZip(z1, b.publicKeyBuffer, pubKeyFile)
        z3 == addBufferToZip(z2, b.secretKeyBuffer, secretKeyFile)
        z4 == addBufferToZip(z3, b.evalMultKeyBuffer, multKeyFile)
        z5 == addBufferToZip(z4, b.automorphismKeyBuffer, rotKeyFile)
        z6 == addBufferToZip(z5, b.FHEWtoCKKSSwitchKeyBuffer,
                             FHEWtoCKKSSwitchKeyFile)
        z7 == addBufferToZip(z6, b.binfheCryptoContextBuffer,
                             binFHECryptoContextFile)
        z8 == addBufferToZip(z7, b.binFHEBootRefreshKeyBuffer,
                             binFHEBootRefreshKeyFile)
        z9 == addBufferToZip(z8, b.binFHEBootRotKeyBuffer, binFHEBootRotKeyFile)
        z10 == addBufferToZip(z9, b.keyIndexBuffer, keyIndexFile)
    IN AddKeyMappings(z10, b.EvalKeyMappings, 1)

\* the ten named buffers of the bundle, each with the fixed file name
\* createDownloadableFile stores it under
NamedBuffers ==
    << [field |-> "cryptoContextBuffer", file |-> cryptoContextFile],
       [field |-> "publicKeyBuffer", file |-> pubKeyFile],
       [field |-> "secretKeyBuffer", file |-> secretKeyFile],
       [field |-> "evalMultKeyBuffer", file |-> multKeyFile],
       [field |-> "automorphismKeyBuffer", file |-> rotKeyFile],
       [field |-> "FHEWtoCKKSSwitchKeyBuffer", file |-> FHEWtoCKKSSwitchKeyFile],
       [field |-> "binfheCryptoContextBuffer", file |-> binFHECryptoContextFile],
       [field |-> "binFHEBootRefreshKeyBuffer",
        file |-> binFHEBootRefreshKeyFile],
       [field |-> "binFHEBootRotKeyBuffer", file |-> binFHEBootRotKeyFile],
       [field |-> "keyIndexBuffer", file |-> keyIndexFile] >>

\* createDownloadableFile(): the archive of the current buffers becomes the
\* file later handed to deserialize
createDownloadableFile ==
    /\ desPc = "idle"
    /\ archive' = ZipOfBuffers(buffers)
    /\ archiveFrom' = IF serResult = Returned /\ uploadResult = NotCalled
                      THEN "complete" ELSE "partial"
    /\ packedFrom' = buffers
    /\ dropped' = {}
    /\ UNCHANGED <<uploadResult, files, filesOf, xferVars, serVars, desVars, outerVars>>

\* the file reaches the deserializer with the entry at position k missing;
\* a file may lack both optional key entries, otherwise it lacks one entry
DropEntry(k) ==
    /\ desPc = "idle"
    /\ k \in 1 .. Len(archive)
    /\ \/ archiveFrom = "complete"
       \/ /\ dropped # {}
          /\ dropped \cup {archive[k].name} \subseteq {multKeyFile, rotKeyFile}
    /\ archive' = [j \in 1 .. Len(archive) - 1 |->
                      IF j < k THEN archive[j] ELSE archive[j + 1]]
    /\ archiveFrom' = "partial"
    /\ dropped' = dropped \cup {archive[k].name}
    /\ UNCHANGED <<packedFrom, uploadResult, files, filesOf,
                   xferVars, serVars, desVars, outerVars>>

\* readFileFromZip(fileName) of uploadFile: the entry's bytes, or null
readFileFromZip(zip, fileName) == ZipLookup(zip, fileName)

Uploaded(file, before, after) ==
    [kind |-> "Uploaded", file |-> file, before |-> before, after |-> after]

\* what uploadFile leaves in this.buffers after reading the archive zip
UploadedBuffers(b, zip) ==
    [b EXCEPT
        !.cryptoContextBuffer = readFileFromZip(zip, cryptoContextFile),
        !.publicKeyBuffer = readFileFromZip(zip, pubKeyFile),
        !.evalMultKeyBuffer = readFileFromZip(zip, multKeyFile),
        !.automorphismKeyBuffer = readFileFromZip(zip, rotKeyFile),
        !.FHEWtoCKKSSwitchKeyBuffer =
            readFileFromZip(zip, FHEWtoCKKSSwitchKeyFile),
        !.binfheCryptoContextBuffer =
            readFileFromZip(zip, binFHECryptoContextFile),
        !.binFHEBootRefreshKeyBuffer =
            readFileFromZip(zip, binFHEBootRefreshKeyFile),
        !.binFHEBootRotKeyBuffer = readFileFromZip(zip, binFHEBootRotKeyFile),
        !.keyIndexBuffer = readFileFromZip(zip, keyIndexFile)]

\* uploadFile(file) on the serializer instance, file being the archive
uploadFile ==
    /\ archiveFrom # "none"
    /\ buffers' = UploadedBuffers(buffers, archive)
    /\ uploadResult' = Uploaded(archive, buffers, buffers')
    /\ UNCHANGED <<ser, engineKeys, serCalls, serResult, buffersBefore,
                   archive, archiveFrom, packedFrom, dropped, files, filesOf,
                   xferVars, desVars, outerVars>>

\* createMapFileName(index, baseFileName)
createMapFileName(index, baseFileName) ==
    dataDirectory \o "/" \o ToString(index) \o "_" \o baseFileName

\* Number(key) for the property name of an EvalKeyMappings element
Number(key) == CHOOSE n \in 0 .. MaxIndex : ToString(n) = key

\* fs.writeFileSync(path, data), fs being the calls made so far
writeFileSync(fs, path, data) == Append(fs, [name |-> path, data |-> data])

\* writeToFile(buffer, fileName) of writeBuffersToFile
writeToFile(fs, buffer, fileName) ==
    IF buffer # Null /\ fileName # ""
    THEN writeFileSync(fs, dataDirectory \o "/" \o fileName, buffer)
    ELSE fs

\* writeKeyMappingToFile(thekey, index)
writeKeyMappingToFile(fs, thekey, index) ==
    writeFileSync(
        writeFileSync(fs, createMapFileName(index, baseRefreshKeyFile),
                      thekey.BSkey),
        createMapFileName(index, baseSwitchingKeyFile), thekey.KSkey)

\* the forEach over EvalKeyMappings of writeBuffersToFile, from position k
RECURSIVE WriteKeyMappings(_, _, _)
WriteKeyMappings(fs, mappings, k) ==
    IF k > Len(mappings) THEN fs
    ELSE WriteKeyMappings(
             writeKeyMappingToFile(fs, mappings[k], Number(mappings[k].key)),
             mappings, k + 1)

\* the files writeBuffersToFile writes for this.buffers
FilesOfBuffers(b) ==
    LET f1 == writeToFile(<<>>, b.cryptoContextBuffer, cryptoContextFile)
        f2 == writeToFile(f1, b.publicKeyBuffer, pubKeyFile)
        f3 == writeToFile(f2, b.evalMultKeyBuffer, multKeyFile)
        f4 == writeToFile(f3, b.automorphismKeyBuffer, rotKeyFile)
        f5 == writeToFile(f4, b.FHEWtoCKKSSwitchKeyBuffer,
                          FHEWtoCKKSSwitchKeyFile)
        f6 == writeToFile(f5, b.binfheCryptoContextBuffer,
                          binFHECryptoContextFile)
        f7 == writeToFile(f6, b.binFHEBootRefreshKeyBuffer,
                          binFHEBootRefreshKeyFile)
        f8 == writeToFile(f7, b.binFHEBootRotKeyBuffer, binFHEBootRotKeyFile)
        f9 == writeToFile(f8, b.keyIndexBuffer, keyIndexFile)
    IN WriteKeyMappings(f9, b.EvalKeyMappings, 1)

\* writeBuffersToFile(fs)
writeBuffersToFile ==
    /\ files' = FilesOfBuffers(buffers)
    /\ filesOf' = buffers
    /\ UNCHANGED <<archive, archiveFrom, packedFrom, dropped, uploadResult,
                   xferVars, serVars, desVars, outerVars>>

\* --------------------------------------------------------- Deserializer
\* new SchemeSwitchingDataDeserializer(module): the fields of DataAndLocation
NewDeserializer ==
    [cryptoContext |-> Null, publicKey |-> Null, secretKey |-> Null,
     FHEWtoCKKSSwitchKey |-> Null, binFHECryptoContext |-> Null]

\* the locals of deserialize
NoLocals ==
    [BTKey |-> BTKeyOf(Null, Null), indices |-> <<>>, pos |-> 0,
     theKey |-> BTKeyOf(Null, Null)]

\* what the engine does with the bytes it is given at one step: it accepts
\* them, returns a falsy result, or throws an encoded numeric identifier
Faults == {"none", "falsy", "throws"}

ExceptionCode == [kind |-> "number", code |-> 5]

\* a deserializer that names the indexed entries as createMapFileName names
\* the indexed files, with the data directory in front
createMapFileNameWithDirectory(index, baseFileName) ==
    dataDirectory \o "/" \o ToString(index) \o "_" \o baseFileName

\* a deserializer that names an indexed entry without its index
createMapFileNameWithoutIndex(index, baseFileName) == "_" \o baseFileName

\* createMapFileNameDeserialize(index, baseFileName)
createMapFileNameDeserialize(index, baseFileName) ==
    ToString(index) \o "_" \o baseFileName

\* a deserializeFile without the test for a missing entry: the engine is
\* handed whatever the lookup gave
deserializeFileUnchecked(zip, filename, type, func, fault) ==
    LET file == ZipLookup(zip, filename) IN
    IF fault = "throws"
    THEN [threw |-> TRUE, error |-> ExceptionCode, value |-> Null,
          calls |-> <<func>>]
    ELSE LET success == IF fault = "falsy" THEN Null
                        ELSE EngineDeserialize(type, file)
         IN IF success = Null
            THEN [threw |-> TRUE,
                  error |-> Error("Error deserializing from " \o filename),
                  value |-> Null, calls |-> <<func>>]
            ELSE [threw |-> FALSE, error |-> Null, value |-> success,
                  calls |-> <<func>>]

\* deserializeFile(filename, deserializeFunc), deserializeFunc importing a
\* <type>: whether it threw, what it threw or returned, the engine calls made
deserializeFile(zip, filename, type, func, fault) ==
    LET file == ZipLookup(zip, filename) IN
    IF file = Null
    THEN [threw |-> TRUE,
          error |-> Error("File " \o filename \o " not found in the zip"),
          value |-> Null, calls |-> <<>>]
    ELSE IF fault = "throws"
    THEN [threw |-> TRUE, error |-> ExceptionCode, value |-> Null,
          calls |-> <<func>>]
    ELSE LET success == IF fault = "falsy" THEN Null
                        ELSE EngineDeserialize(type, file)
         IN IF success = Null
            THEN [threw |-> TRUE,
                  error |-> Error("Error deserializing from " \o filename),
                  value |-> Null, calls |-> <<func>>]
            ELSE [threw |-> FALSE, error |-> Null, value |-> success,
                  calls |-> <<func>>]

\* a catch block that wraps whatever it caught, a number as its digits
CaughtUntranslated(error) ==
    Error(IF error.kind = "number" THEN ToString(error.code)
          ELSE "Error: " \o error.message)

\* the catch block of deserialize: the Error rethrown to the caller
Caught(error) ==
    Error(IF error.kind = "number" THEN ExceptionMessage(error.code)
          ELSE "Error: " \o error.message)

\* deserialize leaves through its catch block
Throw(error) ==
    /\ desPc' = "threw"
    /\ desError' = Caught(error)
    /\ desCaught' = error

\* the engine was handed bytes and rejected them at this step
Rejected(r, fault) ==
    engineFaults' =
        engineFaults + (IF r.calls # <<>> /\ fault # "none" THEN 1 ELSE 0)

\* deserialize(file) is called: the archive is loaded
Deserialize ==
    /\ desPc = "idle"
    /\ archiveFrom # "none"
    /\ desPc' = "cryptoContext"
    /\ desBefore' = des
    /\ engineCalls' = <<>>
    /\ UNCHANGED <<des, desLocal, desError, desCaught, engineFaults,
                   xferVars, serVars, archiveVars, outerVars>>

\* this.cryptoContext = await deserializeFile(ccFileLoc, ...)
DeserializeCryptoContext(fault) ==
    /\ desPc = "cryptoContext"
    /\ LET r == deserializeFile(archive, cryptoContextFile, "CryptoContext",
                                "DeserializeCryptoContextFromBuffer", fault) IN
       /\ engineCalls' = engineCalls \o r.calls
       /\ Rejected(r, fault)
       /\ IF r.threw
          THEN Throw(r.error) /\ UNCHANGED des
          ELSE /\ des' = [des EXCEPT !.cryptoContext = r.value]
               /\ desPc' = "publicKey"
               /\ UNCHANGED <<desError, desCaught>>
    /\ UNCHANGED <<desLocal, desBefore, xferVars, serVars, archiveVars, outerVars>>

\* this.publicKey = await deserializeFile(pubKeyFileLoc, ...)
DeserializePublicKey(fault) ==
    /\ desPc = "publicKey"
    /\ LET r == deserializeFile(archive, pubKeyFile, "PublicKey",
                                "DeserializePublicKeyFromBuffer", fault) IN
       /\ engineCalls' = engineCalls \o r.calls
       /\ Rejected(r, fault)
       /\ IF r.threw
          THEN Throw(r.error) /\ UNCHANGED des
          ELSE /\ des' = [des EXCEPT !.publicKey = r.value]
               /\ desPc' = "secretKey"
               /\ UNCHANGED <<desError, desCaught>>
    /\ UNCHANGED <<desLocal, desBefore, xferVars, serVars, archiveVars, outerVars>>

\* a secret key read the way the multiplication key is: only if its entry
\* is there
DeserializeSecretKeyIfPresent(fault) ==
    /\ desPc = "secretKey"
    /\ IF ZipLookup(archive, secretKeyFile) = Null
       THEN /\ desPc' = "multKey"
            /\ UNCHANGED <<des, desError, desCaught, engineCalls, engineFaults>>
       ELSE LET r == deserializeFile(archive, secretKeyFile, "PrivateKey",
                                     "DeserializePrivateKeyFromBuffer", fault) IN
            /\ engineCalls' = engineCalls \o r.calls
            /\ Rejected(r, fault)
            /\ IF r.threw
               THEN Throw(r.error) /\ UNCHANGED des
               ELSE /\ des' = [des EXCEPT !.secretKey = r.value]
                    /\ desPc' = "multKey"
                    /\ UNCHANGED <<desError, desCaught>>
    /\ UNCHANGED <<desLocal, desBefore, xferVars, serVars, archiveVars, outerVars>>

\* this.secretKey = await deserializeFile(secretKeyFileLoc, ...)
DeserializeSecretKey(fault) ==
    /\ desPc = "secretKey"
    /\ LET r == deserializeFile(archive, secretKeyFile, "PrivateKey",
                                "DeserializePrivateKeyFromBuffer", fault) IN
       /\ engineCalls' = engineCalls \o r.calls
       /\ Rejected(r, fault)
       /\ IF r.threw
          THEN Throw(r.error) /\ UNCHANGED des
          ELSE /\ des' = [des EXCEPT !.secretKey = r.value]
               /\ desPc' = "multKey"
               /\ UNCHANGED <<desError, desCaught>>
    /\ UNCHANGED <<desLocal, desBefore, xferVars, serVars, archiveVars, outerVars>>

\* an optional key entry installed straight onto the context: the return
\* value of the engine call is not looked at, an exception propagates
InstallOptional(filename, type, func, slot, next, fault) ==
    LET file == ZipLookup(archive, filename) IN
    IF file = Null
    THEN /\ fault = "none"
         /\ desPc' = next
         /\ UNCHANGED <<des, desError, desCaught, engineCalls, engineFaults>>
    ELSE /\ engineCalls' = Append(engineCalls, func)
         /\ engineFaults' = engineFaults + (IF fault # "none" THEN 1 ELSE 0)
         /\ IF fault = "throws"
            THEN Throw(ExceptionCode) /\ UNCHANGED des
            ELSE /\ des' = IF fault = "falsy" THEN des
                           ELSE [des EXCEPT !.cryptoContext[slot] =
                                    EngineDeserialize(type, file)]
                 /\ desPc' = next
                 /\ UNCHANGED <<desError, desCaught>>

\* a multiplication key read the way the secret key is: a missing entry is
\* an error
DeserializeEvalMultKeyRequired(fault) ==
    /\ desPc = "multKey"
    /\ LET r == deserializeFile(archive, multKeyFile, "EvalMultKey",
                                "DeserializeEvalMultKeyFromBuffer", fault) IN
       /\ engineCalls' = engineCalls \o r.calls
       /\ Rejected(r, fault)
       /\ IF r.threw
          THEN Throw(r.error) /\ UNCHANGED des
          ELSE /\ des' = [des EXCEPT !.cryptoContext.EvalMultKey = r.value]
               /\ desPc' = "rotKey"
               /\ UNCHANGED <<desError, desCaught>>
    /\ UNCHANGED <<desLocal, desBefore, xferVars, serVars, archiveVars, outerVars>>

\* if (multKeyFile) this.cryptoContext.DeserializeEvalMultKeyFromBuffer(...)
DeserializeEvalMultKey(fault) ==
    /\ desPc = "multKey"
    /\ InstallOptional(multKeyFile, "EvalMultKey",
                       "DeserializeEvalMultKeyFromBuffer", "EvalMultKey",
                       "rotKey", fault)
    /\ UNCHANGED <<desLocal, desBefore, xferVars, serVars, archiveVars, outerVars>>

\* if (rotKeyFile) this.cryptoContext.DeserializeEvalAutomorphismKeyFromBuffer(...)
DeserializeEvalAutomorphismKey(fault) ==
    /\ desPc = "rotKey"
    /\ InstallOptional(rotKeyFile, "EvalAutomorphismKey",
                       "DeserializeEvalAutomorphismKeyFromBuffer",
                       "EvalAutomorphismKey", "switchKey", fault)
    /\ UNCHANGED <<desLocal, desBefore, xferVars, serVars, archiveVars, outerVars>>

\* this.FHEWtoCKKSSwitchKey = await deserializeFile(...); SetSwkFC(...)
DeserializeSwitchKey(fault) ==
    /\ desPc = "switchKey"
    /\ LET r == deserializeFile(archive, FHEWtoCKKSSwitchKeyFile, "SwkFC",
                                "DeserializeSwkFC", fault) IN
       /\ Rejected(r, fault)
       /\ IF r.threw
          THEN /\ Throw(r.error)
               /\ engineCalls' = engineCalls \o r.calls
               /\ UNCHANGED des
          ELSE /\ des' = [des EXCEPT !.FHEWtoCKKSSwitchKey = r.value,
                                     !.cryptoContext.SwkFC = r.value]
               /\ engineCalls' = engineCalls \o r.calls \o <<"SetSwkFC">>
               /\ desPc' = "binFHECryptoContext"
               /\ UNCHANGED <<desError, desCaught>>
    /\ UNCHANGED <<desLocal, desBefore, xferVars, serVars, archiveVars, outerVars>>

\* this.binFHECryptoContext = await deserializeFile(...)
DeserializeBinFHECryptoContext(fault) ==
    /\ desPc = "binFHECryptoContext"
    /\ LET r == deserializeFile(archive, binFHECryptoContextFile,
                                "BinFHECryptoContext",
                                "DeserializeBinFHECryptoContextFromBuffer",
                                fault) IN
       /\ engineCalls' = engineCalls \o r.calls
       /\ Rejected(r, fault)
       /\ IF r.threw
          THEN Throw(r.error) /\ UNCHANGED des
          ELSE /\ des' = [des EXCEPT !.binFHECryptoContext = r.value]
               /\ desPc' = "bootRefreshKey"
               /\ UNCHANGED <<desError, desCaught>>
    /\ UNCHANGED <<desLocal, desBefore, xferVars, serVars, archiveVars, outerVars>>

\* BTKey.BSkey = await deserializeFile(binFHEBootRefreshKeyFileLoc, ...)
DeserializeBootRefreshKey(fault) ==
    /\ desPc = "bootRefreshKey"
    /\ LET r == deserializeFile(archive, binFHEBootRefreshKeyFile, "RefreshKey",
                                "DeserializeBinFHERefreshKeyFromBuffer",
                                fault) IN
       /\ engineCalls' = engineCalls \o r.calls
       /\ Rejected(r, fault)
       /\ IF r.threw
          THEN Throw(r.error) /\ UNCHANGED desLocal
          ELSE /\ desLocal' = [desLocal EXCEPT !.BTKey.BSkey = r.value]
               /\ desPc' = "bootRotKey"
               /\ UNCHANGED <<desError, desCaught>>
    /\ UNCHANGED <<des, desBefore, xferVars, serVars, archiveVars, outerVars>>

\* BTKey.KSkey = await deserializeFile(...); binFHECryptoContext.BTKeyLoad(BTKey)
DeserializeBootRotKey(fault) ==
    /\ desPc = "bootRotKey"
    /\ LET r == deserializeFile(archive, binFHEBootRotKeyFile, "SwitchingKey",
                                "DeserializeBinFHESwitchingKeyFromBuffer",
                                fault) IN
       /\ Rejected(r, fault)
       /\ IF r.threw
          THEN /\ Throw(r.error)
               /\ engineCalls' = engineCalls \o r.calls
               /\ UNCHANGED <<des, desLocal>>
          ELSE /\ desLocal' = [desLocal EXCEPT !.BTKey.KSkey = r.value]
               /\ des' = [des EXCEPT !.binFHECryptoContext.BTKey =
                                         desLocal'.BTKey]
               /\ engineCalls' = engineCalls \o r.calls \o <<"BTKeyLoad">>
               /\ desPc' = "keyIndex"
               /\ UNCHANGED <<desError, desCaught>>
    /\ UNCHANGED <<desBefore, xferVars, serVars, archiveVars, outerVars>>

\* copyVecToJs(vec)
copyVecToJs(vec) == vec.items

\* a key index step without the test for an empty list: the loop over no
\* index falls through to the binding and deserialize returns
DeserializeKeyIndexAllowEmpty(fault) ==
    /\ desPc = "keyIndex"
    /\ LET r == deserializeFile(archive, keyIndexFile, "SeedSeqVector",
                                "DeserializeSeedSeqVector", fault) IN
       /\ Rejected(r, fault)
       /\ IF r.threw
          THEN /\ Throw(r.error)
               /\ engineCalls' = engineCalls \o r.calls
               /\ UNCHANGED <<des, desLocal>>
          ELSE IF Len(copyVecToJs(r.value)) = 0
          THEN /\ des' = [des EXCEPT !.cryptoContext.BinCC =
                                         des.binFHECryptoContext]
               /\ engineCalls' =
                      engineCalls \o r.calls \o <<"SetBinCCForSchemeSwitch">>
               /\ desPc' = "returned"
               /\ UNCHANGED <<desLocal, desError, desCaught>>
          ELSE /\ desLocal' = [desLocal EXCEPT !.indices = copyVecToJs(r.value),
                                               !.pos = 1]
               /\ engineCalls' = engineCalls \o r.calls
               /\ desPc' = "BSkey"
               /\ UNCHANGED <<des, desError, desCaught>>
    /\ UNCHANGED <<desBefore, xferVars, serVars, archiveVars, outerVars>>

\* indices = copyVecToJs(await deserializeFile(keyIndexFileLoc, ...)); an
\* empty list is an error, an empty loop would fall through to the binding
DeserializeKeyIndex(fault) ==
    /\ desPc = "keyIndex"
    /\ LET r == deserializeFile(archive, keyIndexFile, "SeedSeqVector",
                                "DeserializeSeedSeqVector", fault) IN
       /\ engineCalls' = engineCalls \o r.calls
       /\ Rejected(r, fault)
       /\ IF r.threw
          THEN Throw(r.error) /\ UNCHANGED desLocal
          ELSE IF Len(copyVecToJs(r.value)) = 0
          THEN /\ Throw(Error("Error deserializing from " \o keyIndexFile
                              \o ". No indices found."))
               /\ UNCHANGED desLocal
          ELSE /\ desLocal' = [desLocal EXCEPT !.indices = copyVecToJs(r.value),
                                               !.pos = 1]
               /\ desPc' = "BSkey"
               /\ UNCHANGED <<desError, desCaught>>
    /\ UNCHANGED <<des, desBefore, xferVars, serVars, archiveVars, outerVars>>

\* a loop that skips an index whose refresh key entry is missing, binding
\* the secondary context once the list is through
DeserializeBSkeySkipMissing(fault) ==
    /\ desPc = "BSkey"
    /\ LET index == desLocal.indices[desLocal.pos]
           name == createMapFileNameDeserialize(index, baseRefreshKeyFile)
           last == desLocal.pos = Len(desLocal.indices)
           r == deserializeFile(archive, name, "RefreshKey",
                                "DeserializeBinFHERefreshKeyFromBuffer", fault) IN
       IF ZipLookup(archive, name) = Null
       THEN /\ fault = "none"
            /\ desLocal' = [desLocal EXCEPT !.pos = IF last THEN @ ELSE @ + 1]
            /\ des' = IF last
                      THEN [des EXCEPT !.cryptoContext.BinCC =
                                          des.binFHECryptoContext]
                      ELSE des
            /\ engineCalls' =
                   engineCalls \o (IF last THEN <<"SetBinCCForSchemeSwitch">>
                                   ELSE <<>>)
            /\ desPc' = IF last THEN "returned" ELSE "BSkey"
            /\ UNCHANGED <<desError, desCaught, engineFaults>>
       ELSE /\ engineCalls' = engineCalls \o r.calls
            /\ Rejected(r, fault)
            /\ UNCHANGED des
            /\ IF r.threw
               THEN Throw(r.error) /\ UNCHANGED desLocal
               ELSE /\ desLocal' =
                          [desLocal EXCEPT !.theKey = BTKeyOf(r.value, Null)]
                    /\ desPc' = "KSkey"
                    /\ UNCHANGED <<desError, desCaught>>
    /\ UNCHANGED <<desBefore, xferVars, serVars, archiveVars, outerVars>>

\* theKey.BSkey = await deserializeFile(bsKeyFileName, ...), for the index at
\* the loop's position
DeserializeBSkey(fault) ==
    /\ desPc = "BSkey"
    /\ LET index == desLocal.indices[desLocal.pos]
           r == deserializeFile(
                    archive,
                    createMapFileNameDeserialize(index, baseRefreshKeyFile),
                    "RefreshKey", "DeserializeBinFHERefreshKeyFromBuffer",
                    fault) IN
       /\ engineCalls' = engineCalls \o r.calls
       /\ Rejected(r, fault)
       /\ IF r.threw
          THEN Throw(r.error) /\ UNCHANGED desLocal
          ELSE /\ desLocal' = [desLocal EXCEPT !.theKey = BTKeyOf(r.value, Null)]
               /\ desPc' = "KSkey"
               /\ UNCHANGED <<desError, desCaught>>
    /\ UNCHANGED <<des, desBefore, xferVars, serVars, archiveVars, outerVars>>

\* binFHECryptoContext.BTKeyMapLoadSingleElement(index, theKey)
BTKeyMapLoadSingleElement(bin, index, theKey) ==
    [bin EXCEPT !.BTKeyMap =
        [i \in (DOMAIN bin.BTKeyMap) \cup {index} |->
            IF i = index THEN theKey ELSE bin.BTKeyMap[i]]]

\* cryptoContext.SetBinCCForSchemeSwitch(binFHECryptoContext)
SetBinCCForSchemeSwitch(cc, bin) == [cc EXCEPT !.BinCC = bin]

\* theKey.KSkey = await deserializeFile(ksKeyFileName, ...); the pair is
\* loaded at its index; after the last index the secondary context is bound
\* to the context and deserialize returns
DeserializeKSkey(fault) ==
    /\ desPc = "KSkey"
    /\ LET index == desLocal.indices[desLocal.pos]
           last == desLocal.pos = Len(desLocal.indices)
           r == deserializeFile(
                    archive,
                    createMapFileNameDeserialize(index, baseSwitchingKeyFile),
                    "SwitchingKey", "DeserializeBinFHESwitchingKeyFromBuffer",
                    fault)
           theKey == [desLocal.theKey EXCEPT !.KSkey = r.value]
           bin == BTKeyMapLoadSingleElement(des.binFHECryptoContext, index,
                                            theKey) IN
       /\ Rejected(r, fault)
       /\ IF r.threw
          THEN /\ Throw(r.error)
               /\ engineCalls' = engineCalls \o r.calls
               /\ UNCHANGED <<des, desLocal>>
          ELSE /\ desLocal' = [desLocal EXCEPT !.theKey = theKey,
                                               !.pos = IF last THEN @ ELSE @ + 1]
               /\ des' = [des EXCEPT
                             !.binFHECryptoContext = bin,
                             !.cryptoContext =
                                 IF last THEN SetBinCCForSchemeSwitch(@, bin)
                                 ELSE @]
               /\ engineCalls' =
                      engineCalls \o r.calls \o <<"BTKeyMapLoadSingleElement">>
                          \o (IF last THEN <<"SetBinCCForSchemeSwitch">>
                              ELSE <<>>)
               /\ desPc' = IF last THEN "returned" ELSE "BSkey"
               /\ UNCHANGED <<desError, desCaught>>
    /\ UNCHANGED <<desBefore, xferVars, serVars, archiveVars, outerVars>>

\* ------------------------------------------------- deserializeInBackend
\* the data directory dir holding every entry of the archive as a file
ExtractedTo(dir, zip) ==
    [k \in 1 .. Len(zip) |->
        [name |-> dir \o "/" \o zip[k].name, data |-> zip[k].data]]

\* fs.promises.readFile(filePath): the bytes, or the rejection for a missing
\* file
readFile(fs, filePath) ==
    IF ZipIndex(fs, filePath) = 0
    THEN [threw |-> TRUE,
          error |-> Error("ENOENT: no such file or directory, open '"
                          \o filePath \o "'"),
          value |-> Null]
    ELSE [threw |-> FALSE, error |-> Null, value |-> ZipLookup(fs, filePath)]

\* the deserializeFile(filePath, deserializeFunc) of deserializeInBackend
deserializeFileInBackend(fs, filePath, type, fault) ==
    LET buffer == readFile(fs, filePath) IN
    IF buffer.threw THEN buffer
    ELSE IF fault = "throws"
    THEN [threw |-> TRUE, error |-> ExceptionCode, value |-> Null]
    ELSE LET success == IF fault = "falsy" THEN Null
                        ELSE EngineDeserialize(type, buffer.value)
         IN IF success = Null
            THEN [threw |-> TRUE,
                  error |-> Error("Error deserializing from " \o filePath),
                  value |-> Null]
            ELSE [threw |-> FALSE, error |-> Null, value |-> success]

\* the catch block of deserializeInBackend: the Error rethrown to the caller
CaughtInBackend(error) ==
    Error(IF error.kind = "number" THEN ExceptionMessage(error.code)
          ELSE "Error: " \o error.message)

\* deserializeInBackend(fs) over the data directory the archive was extracted
\* to; f1, f2, f3 are what the engine does at the three imports
deserializeInBackend(f1, f2, f3) ==
    /\ backendPc = "idle"
    /\ desPc \in {"returned", "threw"}
    /\ LET fs == ExtractedTo(dataDirectory, archive)
           r1 == deserializeFileInBackend(
                     fs, dataDirectory \o "/" \o cryptoContextFile,
                     "CryptoContext", f1)
           r2 == deserializeFileInBackend(
                     fs, dataDirectory \o "/" \o pubKeyFile, "PublicKey", f2)
           r3 == deserializeFileInBackend(
                     fs, dataDirectory \o "/" \o secretKeyFile, "PrivateKey",
                     f3)
           thrown == IF r1.threw THEN r1.error
                     ELSE IF r2.threw THEN r2.error
                     ELSE IF r3.threw THEN r3.error
                     ELSE Null
       IN /\ backend' =
                 [backend EXCEPT
                     !.cryptoContext = IF r1.threw THEN @ ELSE r1.value,
                     !.publicKey =
                         IF r1.threw \/ r2.threw THEN @ ELSE r2.value,
                     !.secretKey =
                         IF r1.threw \/ r2.threw \/ r3.threw THEN @
                         ELSE r3.value]
          /\ IF thrown = Null
             THEN /\ backendPc' = "returned"
                  /\ UNCHANGED <<backendError, backendCaught>>
             ELSE /\ backendPc' = "threw"
                  /\ backendError' = CaughtInBackend(thrown)
                  /\ backendCaught' = thrown
    /\ UNCHANGED <<xferVars, serVars, archiveVars, desVars, downloadVars,
                   secondVars, numVars, cliVars>>

\* ---------------------------------------------------------------- worker
\* The archive the worker produced is the bytes 0 .. 2n-1, cut into n chunks of
\* two bytes: chunk i is <<2i, 2i+1>>.
WorkerChunk(i) == <<2 * i, 2 * i + 1>>

ErrorTexts == {"zip failed"}

FileChunkMsg(i, n) ==
    [type |-> "fileChunk", chunk |-> WorkerChunk(i), index |-> i,
     totalChunks |-> n, error |-> ""]

FileCreatedMsg ==
    [type |-> "fileCreated", chunk |-> <<>>, index |-> 0, totalChunks |-> 0,
     error |-> ""]

ErrorMsg(e) ==
    [type |-> "error", chunk |-> <<>>, index |-> 0, totalChunks |-> 0,
     error |-> e]

\* every message the worker's contract lets it send for an archive of n chunks
WorkerMessages(n) ==
    {FileChunkMsg(i, n) : i \in 0 .. n - 1}
        \cup {FileCreatedMsg} \cup {ErrorMsg(e) : e \in ErrorTexts}

\* --------------------------------------------------------- chunked transfer
\* the slot array after workRef.onmessage(msg)
OnMessageChunks(arr, msg) ==
    IF msg.type = "fileChunk" THEN ArraySet(arr, msg.index, msg.chunk) ELSE arr

\* the completion test of the handler
AllChunksReceived(arr, receivedTotalChunks) ==
    ArrayLength(arr) = receivedTotalChunks

\* a handler that takes fileCreated, not the last chunk, for the completion
OnMessagePromiseOnFileCreated(p, arr, msg) ==
    IF msg.type = "fileCreated" THEN Resolve(p, ConcatFrom(arr, 0))
    ELSE IF msg.type = "error" THEN Reject(p, Error(msg.error))
    ELSE p

\* the promise after workRef.onmessage(msg), arr being the slot array after it
OnMessagePromise(p, arr, msg) ==
    IF msg.type = "fileChunk"
    THEN IF AllChunksReceived(arr, msg.totalChunks)
         THEN Resolve(p, ConcatFrom(arr, 0))
         ELSE p
    ELSE IF msg.type = "fileCreated" THEN p
    ELSE IF msg.type = "error" THEN Reject(p, Error(msg.error))
    ELSE p

\* createDownloadableFileViaWorker(buffers, fileNames, workRef): installs the
\* handler and posts createFile; the worker will split the archive into n chunks
CreateViaWorker(n) ==
    /\ xferPc = "init"
    /\ xferPc' = "listening"
    /\ totalChunks' = n
    /\ chunks' = <<>>
    /\ promise' = [state |-> "pending"]
    /\ UNCHANGED <<delivered, serVars, archiveVars, desVars, outerVars>>

\* createDownloadableFileViaWorker with no worker
CreateViaWorkerNoWorker ==
    /\ xferPc = "init"
    /\ xferPc' = "noWorker"
    /\ promise' = Reject([state |-> "pending"],
                         Error("Worker not available"))
    /\ UNCHANGED <<totalChunks, chunks, delivered, serVars, archiveVars, desVars, outerVars>>

\* the worker's message msg reaches workRef.onmessage
OnMessage(msg) ==
    /\ xferPc = "listening"
    /\ Len(delivered) < MaxMsgs
    /\ chunks' = OnMessageChunks(chunks, msg)
    /\ promise' = OnMessagePromise(promise, chunks', msg)
    /\ delivered' = Append(delivered, msg)
    /\ UNCHANGED <<xferPc, totalChunks, serVars, archiveVars, desVars, outerVars>>

\* the indices of the fileChunk messages handed to onmessage so far
DeliveredIndices ==
    {delivered[k].index :
        k \in {k \in 1 .. Len(delivered) : delivered[k].type = "fileChunk"}}

\* the worker sends the chunk of an index it has not sent yet
DeliverChunk(i) ==
    /\ i \notin DeliveredIndices
    /\ OnMessage(FileChunkMsg(i, totalChunks))

\* the worker sends its terminal fileCreated, once
DeliverFileCreated ==
    /\ \A k \in 1 .. Len(delivered) : delivered[k].type # "fileCreated"
    /\ OnMessage(FileCreatedMsg)

\* ---------------------------------------------------------------- downloads
Pending == [state |-> "pending"]

Undefined == [kind |-> "undefined"]

\* what zip.generateAsync does inside createDownloadableFile
GenerateOutcomes == {"blob", "rejects"}

\* saveAs(blob, fileName)
saveAs(calls, blob, fileName) ==
    Append(calls, [blob |-> blob, fileName |-> fileName])

\* downloadFile(fileName): awaits createDownloadableFile, saves the blob; the
\* catch block logs and returns
downloadFile(fileName, generate) ==
    /\ downloadPromise.state = "pending"
    /\ IF generate = "blob"
       THEN /\ saved' = saveAs(saved, ZipOfBuffers(buffers), fileName)
            /\ downloadFailed' = FALSE
       ELSE /\ saved' = saved
            /\ downloadFailed' = TRUE
    /\ downloadPromise' = Resolve(downloadPromise, Undefined)
    /\ UNCHANGED <<viaWorkerPromise, viaWorkerAt, xferVars, serVars,
                   archiveVars, desVars, backendVars, secondVars, numVars,
                   cliVars>>

\* downloadFileViaWorker(workRef, fileName) after its await of
\* createDownloadableFileViaWorker: saves the bytes, or rethrows from catch
downloadFileViaWorker(fileName) ==
    /\ xferPc # "init"
    /\ promise.state # "pending"
    /\ viaWorkerPromise.state = "pending"
    /\ viaWorkerAt' = Len(delivered)
    /\ IF promise.state = "fulfilled"
       THEN /\ saved' = saveAs(saved, promise.value, fileName)
            /\ viaWorkerPromise' = Resolve(viaWorkerPromise, Undefined)
       ELSE /\ saved' = saved
            /\ viaWorkerPromise' =
                   Reject(viaWorkerPromise, Error("Error creating downloadable"))
    /\ UNCHANGED <<downloadPromise, downloadFailed, xferVars, serVars,
                   archiveVars, desVars, backendVars, secondVars, numVars,
                   cliVars>>

\* ------------------------------------------------ second transfer
\* createDownloadableFileViaWorker called again with the same workRef while
\* the first call is pending: workRef.onmessage is assigned the new closure
CreateViaWorkerAgain(n) ==
    /\ xferPc = "listening"
    /\ promise.state = "pending"
    /\ ~replaced
    /\ replaced' = TRUE
    /\ totalChunks2' = n
    /\ chunks2' = <<>>
    /\ promise2' = Pending
    /\ UNCHANGED <<delivered2, xferVars, serVars, archiveVars, desVars,
                   backendVars, downloadVars, numVars, cliVars>>

\* the chunk indices of request req the worker has sent so far
SentIndices(req) ==
    IF req = 1
    THEN DeliveredIndices \cup
         {delivered2[k].msg.index :
             k \in {k \in 1 .. Len(delivered2) : delivered2[k].req = 1}}
    ELSE {delivered2[k].msg.index :
             k \in {k \in 1 .. Len(delivered2) : delivered2[k].req = 2}}

\* the worker's next chunk in answer to request req reaches workRef.onmessage,
\* which is the second call's closure
OnMessageSecond(req, i) ==
    /\ replaced
    /\ Len(delivered2) < MaxMsgs
    /\ i \notin SentIndices(req)
    /\ LET msg == FileChunkMsg(i, IF req = 1 THEN totalChunks ELSE totalChunks2)
       IN /\ chunks2' = OnMessageChunks(chunks2, msg)
          /\ promise2' = OnMessagePromise(promise2, chunks2', msg)
          /\ delivered2' = Append(delivered2, [req |-> req, msg |-> msg])
    /\ UNCHANGED <<replaced, totalChunks2, xferVars, serVars, archiveVars,
                   desVars, backendVars, downloadVars, numVars, cliVars>>

\* ------------------------------------------------ OpenFHE: numbers
\* Vectors are sequences: the slot JavaScript calls k is position k + 1.
Zeros(n) == [k \in 1 .. n |-> 0]

\* padArray(inputVal, slots): the padding comes first, the input last
padArray(inputVal, slots) ==
    Zeros(IF slots - Len(inputVal) > 0 THEN slots - Len(inputVal) ELSE 0)
        \o inputVal

\* the key pair this.keys of the OpenFHE instance
Keys == [publicKey |-> PublicKey, secretKey |-> SecretKey]

\* cc.MakeCKKSPackedPlaintext(new VectorDouble(vector))
MakeCKKSPackedPlaintext(vector) == [kind |-> "Plaintext", packed |-> vector]

\* cc.Encrypt(publicKey, plaintext)
Encrypt(publicKey, plaintext) ==
    [kind |-> "Ciphertext", under |-> publicKey, plaintext |-> plaintext]

\* cc.Decrypt(secretKey, ciphertext) of an engine that loses nothing
Decrypt(secretKey, ciphertext) == ciphertext.plaintext

\* encodedVectorNumber(vector)
encodedVectorNumber(vector, slots) ==
    MakeCKKSPackedPlaintext(padArray(vector, slots))

\* encryptNumber(num)
encryptNumber(num, slots) ==
    Encrypt(Keys.publicKey, encodedVectorNumber(<<num>>, slots))

\* Number.prototype.toFixed(3) of a whole number
toFixed3(x) == ToString(x) \o ".000"

\* decodeNumberPlainText(pt): copyVecToJs(pt.GetRealPackedValue())[0]
\* ?.toFixed(3) || 'Error'
decodeNumberPlainText(pt) ==
    IF Len(pt.packed) = 0 THEN "Error" ELSE toFixed3(pt.packed[1])

\* const ciphertext = openFHE.encryptNumber(num)
EncryptNumber ==
    /\ numPc = "plain"
    /\ numPc' = "encrypted"
    /\ numCipher' = encryptNumber(numInput, numSlots)
    /\ UNCHANGED <<numInput, numSlots, numPlain, numDecoded, xferVars,
                   serVars, archiveVars, desVars, backendVars, downloadVars,
                   secondVars, cliVars>>

\* const pt = this.cc.Decrypt(this.keys.secretKey, ct)
DecryptNumber ==
    /\ numPc = "encrypted"
    /\ numPc' = "decrypted"
    /\ numPlain' = Decrypt(Keys.secretKey, numCipher)
    /\ UNCHANGED <<numInput, numSlots, numCipher, numDecoded, xferVars,
                   serVars, archiveVars, desVars, backendVars, downloadVars,
                   secondVars, cliVars>>

\* decodeNumberPlainText(pt)
DecodeNumber ==
    /\ numPc = "decrypted"
    /\ numPc' = "decoded"
    /\ numDecoded' = decodeNumberPlainText(numPlain)
    /\ UNCHANGED <<numInput, numSlots, numCipher, numPlain, xferVars,
                   serVars, archiveVars, desVars, backendVars, downloadVars,
                   secondVars, cliVars>>

\* ------------------------------------------------ OpenFHE: rows of text
\* the k-th key pair cc.KeyGen() hands out: every call makes a new one
generateKeyPair(k) ==
    [publicKey |-> [kind |-> "PublicKey", id |-> "pk" \o ToString(k)],
     secretKey |-> [kind |-> "PrivateKey", id |-> "sk" \o ToString(k)]]

\* stringToInt(inputString): char.charCodeAt(0) of each character, for the
\* cells the input files hold
stringToInt(inputString) ==
    CASE inputString = "" -> <<>>
      [] inputString = "Alice" -> <<65, 108, 105, 99, 101>>
      [] inputString = "30" -> <<51, 48>>
      [] inputString = "101" -> <<49, 48, 49>>
      [] inputString = "k0" -> <<107, 48>>

\* isNaN(Number(value)) is false: the cell reads as a number
IsNumeric(value) == \E n \in 0 .. 200 : ToString(n) = value

\* Number(value) of such a cell
NumberValue(value) == CHOOSE n \in 0 .. 200 : ToString(n) = value

\* padArrayForStringInput(inputVal, slots): the input first, then the fill
\* character
padArrayForStringInput(inputVal, slots) ==
    inputVal \o
        Zeros(IF slots - Len(inputVal) > 0 THEN slots - Len(inputVal) ELSE 0)

\* encryptString(str, keys)
encryptString(str, keys, slots) ==
    Encrypt(keys.publicKey,
            MakeCKKSPackedPlaintext(
                padArrayForStringInput(stringToInt(str), slots)))

\* encryptNumberOnly(num, key)
encryptNumberOnly(num, key) ==
    Encrypt(key.publicKey, MakeCKKSPackedPlaintext(<<num>>))

\* createCipherTextString(cipherText)
createCipherTextString(cipherText) ==
    [kind |-> "CiphertextString", of |-> cipherText]

\* the public key read from the data holder's key file
DataHolderPublicKey == [kind |-> "PublicKey", id |-> "holder"]

\* genearateProxyEncKey(pubKeyBuffer, key)
genearateProxyEncKey(pubKeyBuffer, key) ==
    [kind |-> "EvalKey", from |-> key.secretKey,
     to |-> EngineDeserialize("PublicKey", pubKeyBuffer)]

\* serializeEvalKeyToBuffer(evalKey)
serializeEvalKeyToBuffer(evalKey) == EngineSerialize("EvalKey", evalKey)

\* Uint8Array.prototype.toString()
BufferToString(buffer) == [kind |-> "BufferString", of |-> buffer]

\* ------------------------------------------------ encrypt-csv.ts
\* a cell as csv-parser delivers it
Text(str) == [kind |-> "Text", text |-> str]

DefaultSlots == MaxSlots

\* encryptString(value, key) of main
cliEncryptString(value, key) ==
    createCipherTextString(encryptString(value, key, DefaultSlots))

\* encryptNumber(value, key) of main
cliEncryptNumber(value, key) ==
    createCipherTextString(encryptNumberOnly(value, key))

\* generatePREKey(ownerKey), awaited and turned into a string
generatePREKey(ownerKey) ==
    BufferToString(
        serializeEvalKeyToBuffer(
            genearateProxyEncKey(
                EngineSerialize("PublicKey", DataHolderPublicKey), ownerKey)))

\* what goes wrong during one run of the 'end' handler: nothing, the engine
\* throwing at the first encryption of a row, the PRE key generation of a row
\* failing, or writeRecords rejecting
EndFailures(n) ==
    {[what |-> "none", row |-> 0], [what |-> "write", row |-> 0]}
        \cup {[what |-> w, row |-> r] : w \in {"encrypt", "prekey"}, r \in 1 .. n}

\* the columns of the row, in the order of Object.entries(row)
Entries(header) == header

\* the row's column names
Columns(header) == {header[k] : k \in 1 .. Len(header)}

\* the field of one column after the loop body ran for it
EncryptedField(key, value, skip, encryptionKey) ==
    IF key \in skip THEN value
    ELSE IF value.text = "" THEN value
    ELSE IF IsNumeric(value.text)
    THEN cliEncryptNumber(NumberValue(value.text), encryptionKey)
    ELSE cliEncryptString(value.text, encryptionKey)

\* the map callback for one row under encryptionKey: newRow, or what it threw
EncryptRow(row, header, skip, encryptionKey, fail) ==
    LET toEncrypt == {c \in Columns(header) : c \notin skip /\ row[c].text # ""}
    IN IF fail = "encrypt" /\ toEncrypt # {}
       THEN [threw |-> TRUE, error |-> Error("encryption failed")]
       ELSE IF fail = "prekey"
       THEN [threw |-> TRUE, error |-> Error("PRE key generation failed")]
       ELSE [threw |-> FALSE,
             newRow |->
                 [c \in Columns(header) \cup {"PRE_key"} |->
                     IF c = "PRE_key" THEN generatePREKey(encryptionKey)
                     ELSE EncryptedField(c, row[c], skip, encryptionKey)]]

\* a map whose callbacks all use one key pair, generated before the rows
MapRowsSharedKey(rs, header, skip, first, fail) ==
    [r \in 1 .. Len(rs) |->
        EncryptRow(rs[r], header, skip, generateKeyPair(first + 1),
                   IF fail.row = r THEN fail.what ELSE "none")]

\* rows.map(async row => ...): the callback's outcome for every row, the
\* r-th callback generating the key pair of call number first + r
MapRows(rs, header, skip, first, fail) ==
    [r \in 1 .. Len(rs) |->
        EncryptRow(rs[r], header, skip, generateKeyPair(first + r),
                   IF fail.row = r THEN fail.what ELSE "none")]

\* the header handed to createObjectCsvWriter
WriterHeader(keys) == keys \o <<"PRE_key">>

\* writer.writeRecords(records): one line per record, the field of each header
\* id in turn
writeRecords(header, records) ==
    [header |-> header,
     records |->
         [r \in 1 .. Len(records) |->
             [k \in 1 .. Len(header) |-> records[r][header[k]]]]]

\* processCSV(inputPath, outputPath, skipColumns), awaited by main: wires the
\* stream handlers and returns
processCSV ==
    /\ cliPc = "start"
    /\ cliPc' = "wired"
    /\ headerKeys' = <<>>
    /\ rows' = <<>>
    /\ processPromise' = Resolve(processPromise, Undefined)
    /\ mainExit' = "returned"
    /\ UNCHANGED <<csvFile, skipColumns, endPromise, keyGens, rowKeys, output,
                   xferVars, serVars, archiveVars, desVars, backendVars,
                   downloadVars, secondVars, numVars>>

\* .on('headers', headers => headerKeys.push(...headers))
OnHeaders ==
    /\ cliPc = "wired"
    /\ cliPc' = "headers"
    /\ headerKeys' = headerKeys \o csvFile.header
    /\ UNCHANGED <<csvFile, skipColumns, rows, processPromise, mainExit,
                   endPromise, keyGens, rowKeys, output, xferVars, serVars,
                   archiveVars, desVars, backendVars, downloadVars, secondVars,
                   numVars>>

\* .on('data', data => rows.push(data))
OnData ==
    /\ cliPc = "headers"
    /\ Len(rows) < Len(csvFile.rows)
    /\ rows' = Append(rows, csvFile.rows[Len(rows) + 1])
    /\ UNCHANGED <<csvFile, skipColumns, cliPc, headerKeys, processPromise,
                   mainExit, endPromise, keyGens, rowKeys, output, xferVars,
                   serVars, archiveVars, desVars, backendVars, downloadVars,
                   secondVars, numVars>>

\* .on('end', async () => ...): every row is mapped, Promise.all awaited, the
\* records written; a failure rejects the handler's own promise
OnEnd(fail) ==
    /\ cliPc = "headers"
    /\ Len(rows) = Len(csvFile.rows)
    /\ cliPc' = "ended"
    /\ LET mapped == MapRows(rows, headerKeys, skipColumns, keyGens, fail)
           failed == {r \in 1 .. Len(rows) : mapped[r].threw}
       IN /\ keyGens' = keyGens + Len(rows)
          /\ rowKeys' = [r \in 1 .. Len(rows) |-> generateKeyPair(keyGens + r)]
          /\ IF failed # {}
             THEN /\ endPromise' =
                         Reject(endPromise,
                                mapped[CHOOSE r \in failed : TRUE].error)
                  /\ output' = output
             ELSE IF fail.what = "write"
             THEN /\ endPromise' = Reject(endPromise, Error("write failed"))
                  /\ output' = output
             ELSE /\ endPromise' = Resolve(endPromise, Undefined)
                  /\ output' =
                         writeRecords(
                             WriterHeader(headerKeys),
                             [r \in 1 .. Len(rows) |-> mapped[r].newRow])
    /\ UNCHANGED <<csvFile, skipColumns, headerKeys, rows, processPromise,
                   mainExit, xferVars, serVars, archiveVars, desVars,
                   backendVars, downloadVars, secondVars, numVars>>

InitTransfer ==
    /\ xferPc = "init"
    /\ totalChunks = 0
    /\ chunks = <<>>
    /\ promise = [state |-> "pending"]
    /\ delivered = <<>>

\* --------------------------------------------------------- specifications
\* the serializer as constructed over engine context cc0 and set up by its caller
SerializerSetups(keys) ==
    {NewSerializer(m, cc0, pk, sk) :
        m \in {Null, Module},
        cc0 \in {Null, EngineCC(keys),
                 [EngineCC(keys) EXCEPT !.BinCC = Null],
                 [EngineCC(keys) EXCEPT !.SwkFC = Null]},
        pk \in {Null, PublicKey},
        sk \in {Null, SecretKey}}

\* a serializer, a deserializer and no archive yet
InitBundleWith(s, keys) ==
    /\ ser = s
    /\ engineKeys = keys
    /\ buffers = EmptyBuffers
    /\ serCalls = 0
    /\ serResult = NotCalled
    /\ buffersBefore = EmptyBuffers
    /\ archive = <<>>
    /\ archiveFrom = "none"
    /\ packedFrom = EmptyBuffers
    /\ dropped = {}
    /\ uploadResult = NotCalled
    /\ files = <<>>
    /\ filesOf = Null
    /\ des = NewDeserializer
    /\ desPc = "idle"
    /\ desLocal = NoLocals
    /\ desError = Null
    /\ desCaught = Null
    /\ desBefore = NewDeserializer
    /\ engineCalls = <<>>
    /\ engineFaults = 0

InitBundle ==
    \E keys \in InjectiveSeqs(0 .. MaxIndex, MaxKeys) :
        \E s \in SerializerSetups(keys) : InitBundleWith(s, keys)

\* a second deserializer instance, not used yet
InitBackend ==
    /\ backend = NewDeserializer
    /\ backendPc = "idle"
    /\ backendError = Null
    /\ backendCaught = Null

\* no download asked for yet
InitDownload ==
    /\ downloadPromise = Pending
    /\ downloadFailed = FALSE
    /\ viaWorkerPromise = Pending
    /\ viaWorkerAt = 0
    /\ saved = <<>>

\* no second call yet
InitSecond ==
    /\ replaced = FALSE
    /\ totalChunks2 = 0
    /\ chunks2 = <<>>
    /\ promise2 = Pending
    /\ delivered2 = <<>>

\* an OpenFHE instance of the given slot count about to encrypt n
InitNumberWith(n, slots) ==
    /\ numInput = n
    /\ numSlots = slots
    /\ numPc = "plain"
    /\ numCipher = Null
    /\ numPlain = Null
    /\ numDecoded = ""

\* the tool started on an input file with the -k option
InitCliWith(file, skip) ==
    /\ csvFile = file
    /\ skipColumns = skip
    /\ cliPc = "start"
    /\ headerKeys = <<>>
    /\ rows = <<>>
    /\ processPromise = Pending
    /\ mainExit = "running"
    /\ endPromise = Pending
    /\ keyGens = 0
    /\ rowKeys = <<>>
    /\ output = Null

\* the header lines of the input files: the README's columns, and a file
\* that already has a PRE_key column
CsvHeaders == {<<"PatientID", "Name">>, <<"PatientID", "Name", "PRE_key">>}

\* the lines of the input files, cell by cell
CsvLines == {<<"101", "Alice", "k0">>, <<"", "30", "">>, <<"30", "", "k0">>}

\* the input files: a header and at most MaxRows lines under it
CsvFiles ==
    {[header |-> h,
      rows |-> [r \in 1 .. Len(ls) |->
                   [c \in {h[k] : k \in 1 .. Len(h)} |->
                       Text(ls[r][CHOOSE k \in 1 .. Len(h) : h[k] = c])]]] :
        h \in CsvHeaders,
        ls \in UNION {[1 .. n -> CsvLines] : n \in 0 .. MaxRows}}

\* the -k lists
SkipLists == SUBSET {"PatientID", "PRE_key"}

\* the default instance: 32 slots in the code, the largest count here; the
\* tool not run
InitOuter ==
    /\ InitBackend /\ InitDownload /\ InitSecond
    /\ InitNumberWith(0, MaxSlots)
    /\ InitCliWith([header |-> <<>>, rows |-> <<>>], {})

Init == InitTransfer /\ InitBundle /\ InitOuter

NextTransfer ==
    \/ \E n \in 1 .. MaxChunks : CreateViaWorker(n)
    \/ CreateViaWorkerNoWorker
    \/ \E msg \in WorkerMessages(totalChunks) : OnMessage(msg)

NextSerializer ==
    \/ \E fail \in FailChoices(engineKeys) : Serialize(fail)
    \/ createDownloadableFile

NextDeserializer ==
    \/ Deserialize
    \/ \E fault \in Faults : DeserializeCryptoContext(fault)
    \/ \E fault \in Faults : DeserializePublicKey(fault)
    \/ \E fault \in Faults : DeserializeSecretKey(fault)
    \/ \E fault \in Faults : DeserializeEvalMultKey(fault)
    \/ \E fault \in Faults : DeserializeEvalAutomorphismKey(fault)
    \/ \E fault \in Faults : DeserializeSwitchKey(fault)
    \/ \E fault \in Faults : DeserializeBinFHECryptoContext(fault)
    \/ \E fault \in Faults : DeserializeBootRefreshKey(fault)
    \/ \E fault \in Faults : DeserializeBootRotKey(fault)
    \/ \E fault \in Faults : DeserializeKeyIndex(fault)
    \/ \E fault \in Faults : DeserializeBSkey(fault)
    \/ \E fault \in Faults : DeserializeKSkey(fault)

\* the bundle's lifecycle: populated by one Serialize, packed, handed over
\* (possibly short of an entry) and consumed by one deserialize
NextBundle ==
    \/ \E fail \in FailChoices(engineKeys) : serCalls = 0 /\ Serialize(fail)
    \/ createDownloadableFile
    \/ \E k \in 1 .. Len(archive) : DropEntry(k)
    \/ NextDeserializer

\* the serializer instance with its archive and its files: Serialize calls,
\* packing, a file losing entries, unpacking into this.buffers, writing out
NextStore ==
    \/ \E fail \in FailChoices(engineKeys) : Serialize(fail)
    \/ createDownloadableFile
    \/ \E k \in 1 .. Len(archive) : DropEntry(k)
    \/ uploadFile
    \/ writeBuffersToFile

\* a bundle packed by a serializer that goes on being used, its archive
\* unpacked into this.buffers and handed to the deserializer
NextOmission ==
    \/ \E fail \in FailChoices(engineKeys) : Serialize(fail)
    \/ createDownloadableFile
    \/ desPc = "idle" /\ uploadFile
    \/ NextDeserializer

\* the bundle's lifecycle, the extracted archive then read by
\* deserializeInBackend
NextBackend ==
    \/ NextBundle
    \/ \E f1, f2, f3 \in Faults : deserializeInBackend(f1, f2, f3)

FileNames == {"crypto_context.zip"}

\* a serializer asked for its archive both ways; the continuation of
\* downloadFileViaWorker runs as soon as the transfer's promise has settled,
\* before the worker's next message is handled
NextDownload ==
    \/ \E fail \in FailChoices(engineKeys) : serCalls = 0 /\ Serialize(fail)
    \/ \E n \in 1 .. MaxChunks : CreateViaWorker(n)
    \/ CreateViaWorkerNoWorker
    \/ \E msg \in WorkerMessages(totalChunks) :
           /\ promise.state = "pending" \/ viaWorkerPromise.state # "pending"
           /\ OnMessage(msg)
    \/ \E f \in FileNames, g \in GenerateOutcomes : downloadFile(f, g)
    \/ \E f \in FileNames : downloadFileViaWorker(f)

\* a worker that answers one request with each chunk once, in any order, and
\* one fileCreated, and never with an error; the caller goes on once the
\* transfer has settled
NextDelivery ==
    \/ \E n \in 1 .. MaxChunks : CreateViaWorker(n)
    \/ \E i \in 0 .. totalChunks - 1 : DeliverChunk(i)
    \/ DeliverFileCreated
    \/ \E f \in FileNames : downloadFileViaWorker(f)

\* two requests to one worker, the second made while the first is pending;
\* the worker answers each request with each of its chunks once
NextTwoTransfers ==
    \/ \E n \in 1 .. MaxChunks : CreateViaWorker(n)
    \/ \E i \in 0 .. totalChunks - 1 : ~replaced /\ DeliverChunk(i)
    \/ \E n \in 1 .. MaxChunks : CreateViaWorkerAgain(n)
    \/ \E i \in 0 .. totalChunks - 1 : OnMessageSecond(1, i)
    \/ \E i \in 0 .. totalChunks2 - 1 : OnMessageSecond(2, i)

\* one run of the tool: processCSV, then the stream's events
NextCli ==
    \/ processCSV
    \/ OnHeaders
    \/ OnData
    \/ \E fail \in EndFailures(Len(rows)) : OnEnd(fail)

NextNumber == EncryptNumber \/ DecryptNumber \/ DecodeNumber

Next ==
    \/ NextCli
    \/ NextNumber
    \/ NextTwoTransfers
    \/ NextDelivery
    \/ NextDownload
    \/ NextTransfer
    \/ NextSerializer
    \/ NextBundle
    \/ NextStore
    \/ NextOmission
    \/ NextBackend

\* the transfer protocol alone, beside an untouched serializer
InitTransferAlone ==
    /\ InitTransfer
    /\ InitBundleWith(NewSerializer(Module, EngineCC(<<>>), PublicKey, SecretKey),
                      <<>>)
    /\ InitOuter

SpecTransfer == InitTransferAlone /\ [][NextTransfer]_vars

\* repeated Serialize calls and packing on one serializer instance
SpecSerializer == Init /\ [][NextSerializer]_vars

\* serialize, pack, hand over, deserialize
SpecBundle == Init /\ [][NextBundle]_vars

\* the serializer with packing, unpacking and writing to files
SpecStore == Init /\ [][NextStore]_vars

\* packing, unpacking and deserializing a bundle that lacks buffers
SpecOmission == Init /\ [][NextOmission]_vars

\* both deserializers on the same artifacts
SpecBackend == Init /\ [][NextBackend]_vars

\* downloadFile and downloadFileViaWorker on one serializer
SpecDownload == InitTransferAlone /\ [][NextDownload]_vars

\* a DeliverChunk step, told by the message history alone
ChunkHandedOver ==
    \E i \in (0 .. totalChunks - 1) \ DeliveredIndices :
        /\ xferPc = "listening"
        /\ Len(delivered) < MaxMsgs
        /\ delivered' = Append(delivered, FileChunkMsg(i, totalChunks))

\* the worker does deliver every chunk it has cut the archive into
SpecDelivery ==
    /\ InitTransferAlone
    /\ [][NextDelivery]_vars
    /\ WF_delivered(ChunkHandedOver)

\* two transfers on the same worker
SpecTwoTransfers == InitTransferAlone /\ [][NextTwoTransfers]_vars

\* any number, any slot count, beside an untouched bundle
InitNumber ==
    /\ InitTransfer
    /\ InitBundleWith(NewSerializer(Module, EngineCC(<<>>), PublicKey, SecretKey),
                      <<>>)
    /\ InitBackend /\ InitDownload /\ InitSecond
    /\ InitCliWith([header |-> <<>>, rows |-> <<>>], {})
    /\ \E n \in -MaxNumber .. MaxNumber, slots \in 1 .. MaxSlots :
           InitNumberWith(n, slots)

\* encryptNumber, Decrypt, decodeNumberPlainText
SpecNumber == InitNumber /\ [][NextNumber]_vars

\* any input file, any -k list, beside an untouched bundle
InitCli ==
    /\ InitTransfer
    /\ InitBundleWith(NewSerializer(Module, EngineCC(<<>>), PublicKey, SecretKey),
                      <<>>)
    /\ InitBackend /\ InitDownload /\ InitSecond
    /\ InitNumberWith(0, MaxSlots)
    /\ \E file \in CsvFiles, skip \in SkipLists : InitCliWith(file, skip)

\* encrypt-csv.ts
SpecCli == InitCli /\ [][NextCli]_vars

Spec == Init /\ [][Next]_vars

\* ------------------------------------------- claims: chunked transfer
\* the indices of the fileChunk messages among the first k delivered messages
ReceivedBefore(k) ==
    {delivered[j].index : j \in {j \in 1 .. k : delivered[j].type = "fileChunk"}}

\* what in-order delivery of chunks 0 .. n-1 yields: chunk[0] ++ ... ++ chunk[n-1]
RECURSIVE InOrderBytes(_, _)
InOrderBytes(i, n) ==
    IF i >= n THEN <<>> ELSE WorkerChunk(i) \o InOrderBytes(i + 1, n)

\* the delivered messages are fileChunk messages only, no index twice: a
\* prefix of a permutation of chunks 0 .. n-1
PermutationDelivery ==
    /\ \A j \in 1 .. Len(delivered) : delivered[j].type = "fileChunk"
    /\ \A j, k \in 1 .. Len(delivered) :
           delivered[j].index = delivered[k].index => j = k

\* C1: the promise is fulfilled only in a state where a fileChunk has been
\* received for every index 0 .. totalChunks-1.
C1_ResolvesOnlyWhenComplete ==
    promise.state = "fulfilled" =>
        \A i \in 0 .. totalChunks - 1 : i \in ReceivedBefore(Len(delivered))

\* C2: whenever the chunks were delivered as a permutation of 0 .. n-1, the
\* bytes the promise is fulfilled with are chunk[0] ++ chunk[1] ++ ... ++
\* chunk[n-1], the result of in-order delivery.
C2_AnyOrderEqualsInOrder ==
    (promise.state = "fulfilled" /\ PermutationDelivery) =>
        promise.value = InOrderBytes(0, totalChunks)

\* C3: if the first error message is delivered before the transfer has
\* completed (some index 0 .. totalChunks-1 not yet received), the promise is
\* rejected with an Error carrying the worker's text, whatever fileChunk
\* messages follow.
C3_ErrorBeforeCompletionRejects ==
    \A k \in 1 .. Len(delivered) :
        ( /\ delivered[k].type = "error"
          /\ \A j \in 1 .. k - 1 : delivered[j].type # "error"
          /\ ReceivedBefore(k - 1) # 0 .. totalChunks - 1 )
        => ( /\ promise.state = "rejected"
             /\ promise.reason = Error(delivered[k].error) )

\* ------------------------------------------------- claims: serializer
\* the bootstrap indices keying the entries of buffers.EvalKeyMappings
MappingKeys(b) ==
    {b.EvalKeyMappings[k].key : k \in 1 .. Len(b.EvalKeyMappings)}

NoDuplicateMapping(b) ==
    \A j, k \in 1 .. Len(b.EvalKeyMappings) :
        b.EvalKeyMappings[j].key = b.EvalKeyMappings[k].key => j = k

\* the index list serialized into keyIndexBuffer
SerializedIndices(b) == b.keyIndexBuffer.content.items

\* C5: in every state reachable by Serialize calls on one serializer instance,
\* no bootstrap index occurs in more than one entry of buffers.EvalKeyMappings.
C5_IndexUnique == NoDuplicateMapping(buffers)

\* C6: after every Serialize that returned, the indices serialized into
\* keyIndexBuffer and the indices keying EvalKeyMappings are the same set, and
\* neither list holds an index twice.
C6_IndexIntegrity ==
    serResult = Returned =>
        LET indices == SerializedIndices(buffers) IN
        /\ {ToString(indices[k]) : k \in 1 .. Len(indices)} = MappingKeys(buffers)
        /\ \A j, k \in 1 .. Len(indices) : indices[j] = indices[k] => j = k
        /\ NoDuplicateMapping(buffers)

\* C7: when Serialize throws, this.buffers (EvalKeyMappings included) is what
\* it was before the call.
C7_SerializeAllOrNothing ==
    serResult.kind = "Error" => buffers = buffersBefore

\* ----------------------------------------------- claims: round trip
\* the deserializer holds what the serializer's engine held
SameAsEngine ==
    /\ des.cryptoContext = ser.cryptoContext
    /\ des.publicKey = ser.publicKey
    /\ des.secretKey = ser.secretKey
    /\ des.FHEWtoCKKSSwitchKey = ser.FHEWtoCKKSSwitchKey
    /\ des.binFHECryptoContext = ser.binFHECryptoContext
    /\ des.binFHECryptoContext.BTKeyMap = ser.binFHECryptoContext.BTKeyMap

\* deserialize has run to its end on the archive packed from a Serialize that
\* returned, the engine accepting every entry
RoundTripDone ==
    /\ desPc \in {"returned", "threw"}
    /\ archiveFrom = "complete"
    /\ engineFaults = 0

\* C4 as stated: for every N >= 0, Serialize, createDownloadableFile, then
\* deserialize succeeds and the deserializer holds what the engine held.
C4_RoundTripAnyN ==
    RoundTripDone => (desPc = "returned" /\ SameAsEngine)

\* C4 amended: for every N >= 1 bootstrap entries, Serialize,
\* createDownloadableFile, then deserialize succeeds and the deserializer holds
\* the engine's context, keys, secondary context and bootstrap map.
C4_RoundTrip ==
    (RoundTripDone /\ Len(engineKeys) >= 1) =>
        (desPc = "returned" /\ SameAsEngine)

C4_Witness ==
    /\ RoundTripDone
    /\ Len(engineKeys) = MaxKeys
    /\ desPc = "returned"
    /\ DOMAIN des.binFHECryptoContext.BTKeyMap =
           {engineKeys[k] : k \in 1 .. Len(engineKeys)}

\* --------------------------------------------- claims: deserializer
HasEntry(name) == ZipLookup(archive, name) # Null

\* C8: deserialize never returns normally for an archive that lacks the
\* context entry, the public-key entry or the secret-key entry.
C8_MandatoryEntries ==
    desPc = "returned" =>
        (HasEntry(cryptoContextFile) /\ HasEntry(pubKeyFile)
            /\ HasEntry(secretKeyFile))

\* deserialize ran on an archive that lacks only the secret key, and threw
C8_Witness ==
    /\ desPc = "threw"
    /\ HasEntry(cryptoContextFile) /\ HasEntry(pubKeyFile)
    /\ ~HasEntry(secretKeyFile)
    /\ HasEntry(keyIndexFile)

\* C9: whenever deserialize throws, the deserializer's cryptoContext,
\* publicKey, secretKey, FHEWtoCKKSSwitchKey and binFHECryptoContext are what
\* they were before the call.
C9_DeserializeFailsWhole ==
    desPc = "threw" => des = desBefore

\* C10: when the context entry is absent, deserialize throws an error naming
\* that entry, invokes no engine operation and changes no field.
C10_MissingContext ==
    (desPc \in {"returned", "threw"} /\ ~HasEntry(cryptoContextFile)) =>
        /\ desPc = "threw"
        /\ desError =
               Error("Error: File " \o cryptoContextFile \o " not found in the zip")
        /\ engineCalls = <<>>
        /\ des = desBefore

\* deserialize threw on an archive that holds entries but not the context
C10_Witness ==
    /\ desPc = "threw"
    /\ ~HasEntry(cryptoContextFile)
    /\ HasEntry(pubKeyFile) /\ HasEntry(secretKeyFile)

\* ------------------------------------------ claims: unpacking and files
\* C11: after uploadFile on an archive, each of the ten named buffers equals
\* the bytes of the archive entry of its fixed file name when that entry
\* exists, and is null when it does not.
C11_UploadReadsEveryEntry ==
    uploadResult.kind = "Uploaded" =>
        \A k \in 1 .. Len(NamedBuffers) :
            uploadResult.after[NamedBuffers[k].field] =
                ZipLookup(uploadResult.file, NamedBuffers[k].file)

\* the names of the entries of an archive, or of the files written
Names(list) == {list[k].name : k \in 1 .. Len(list)}

FixedNames == {NamedBuffers[k].file : k \in 1 .. Len(NamedBuffers)}

\* one pair of indexed names per entry of b.EvalKeyMappings, under dir
IndexedNamesUnder(dir, b) ==
    {dir \o "/" \o b.EvalKeyMappings[k].key \o "_" \o base :
        k \in 1 .. Len(b.EvalKeyMappings),
        base \in {baseRefreshKeyFile, baseSwitchingKeyFile}}

\* C12: the files writeBuffersToFile writes for a bundle are, under the data
\* directory, the fixed file names createDownloadableFile puts in the archive
\* for that bundle, plus one pair of indexed files per bootstrap entry.
C12_FilesMatchArchive ==
    filesOf # Null =>
        Names(files) =
            {dataDirectory \o "/" \o n :
                n \in FixedNames \cap Names(ZipOfBuffers(filesOf))}
                \cup IndexedNamesUnder(dataDirectory, filesOf)

\* ------------------------------------------- claims: bootstrap entries
\* the serializer lacks one of the objects Serialize requires
Uninitialised(s) ==
    \/ s.module = Null \/ s.cryptoContext = Null \/ s.publicKey = Null
    \/ s.secretKey = Null \/ s.binFHECryptoContext = Null
    \/ s.FHEWtoCKKSSwitchKey = Null

\* the last Serialize call threw because an engine export came back empty
EngineRefused ==
    /\ serResult.kind = "Error"
    /\ serResult.message \in
           {TopLevel[k].error : k \in 1 .. Len(TopLevel)}
               \cup {"Exception writing BSkey to buffer",
                      "Exception writing KSkey to buffer",
                      "Exception writing indices to buffer"}

EmptyIndexListError ==
    Error("Error: Error deserializing from key_indices.txt. No indices found.")

\* C13: for an engine with no bootstrap entry, Serialize on an initialised
\* serializer whose exports the engine serves returns with keyIndexBuffer
\* present and EvalKeyMappings empty, and deserialize of the archive packed
\* from that bundle throws the empty-index-list error instead of returning.
C13_EmptyBootstrap ==
    Len(engineKeys) = 0 =>
        /\ (serCalls > 0 /\ ~Uninitialised(ser) /\ ~EngineRefused) =>
               /\ serResult = Returned
               /\ buffers.keyIndexBuffer # Null
               /\ SerializedIndices(buffers) = <<>>
               /\ buffers.EvalKeyMappings = <<>>
        /\ RoundTripDone =>
               /\ desPc = "threw"
               /\ desError = EmptyIndexListError
               /\ des.cryptoContext.BinCC = Null

\* deserialize reached the index list of a bundle without bootstrap entries
C13_Witness ==
    /\ Len(engineKeys) = 0
    /\ serResult = Returned
    /\ RoundTripDone
    /\ desPc = "threw"
    /\ engineCalls[Len(engineCalls)] = "DeserializeSeedSeqVector"

\* the archive lacks one of the two indexed entries of index i
LacksIndexed(i) ==
    \/ ~HasEntry(ToString(i) \o "_" \o baseRefreshKeyFile)
    \/ ~HasEntry(ToString(i) \o "_" \o baseSwitchingKeyFile)

\* the positions of the recovered index list whose index lacks an entry
MissingPositions ==
    {k \in 1 .. Len(desLocal.indices) : LacksIndexed(desLocal.indices[k])}

Invoked(func) == \E k \in 1 .. Len(engineCalls) : engineCalls[k] = func

\* C14: when an index of the recovered key index list lacks one of its two
\* indexed entries, deserialize does not return, its loop does not get past
\* that index, and the secondary context is not bound to the context; once
\* deserialize has ended it has thrown.
C14_MissingIndexedEntry ==
    MissingPositions # {} =>
        /\ desPc # "returned"
        /\ desPc \in {"BSkey", "KSkey", "threw"}
        /\ \A k \in MissingPositions : desLocal.pos <= k
        /\ ~Invoked("SetBinCCForSchemeSwitch")
        /\ des.cryptoContext.BinCC = Null

\* deserialize loaded the first listed index and threw at the second, whose
\* entry the archive lacks
C14_Witness ==
    /\ MissingPositions = {2}
    /\ desPc = "threw"
    /\ engineFaults = 0
    /\ Invoked("BTKeyMapLoadSingleElement")
    /\ desError.message \in
           {"Error: File " \o ToString(desLocal.indices[2]) \o "_" \o base
                \o " not found in the zip" :
                    base \in {baseRefreshKeyFile, baseSwitchingKeyFile}}

\* --------------------------------------- claims: order of engine calls
IsPrefix(p, q) == Len(p) <= Len(q) /\ SubSeq(q, 1, Len(p)) = p

\* the engine operations of the loop over n listed indices
RECURSIVE LoopCalls(_)
LoopCalls(n) ==
    IF n = 0 THEN <<>>
    ELSE <<"DeserializeBinFHERefreshKeyFromBuffer",
           "DeserializeBinFHESwitchingKeyFromBuffer",
           "BTKeyMapLoadSingleElement">> \o LoopCalls(n - 1)

\* the engine operations of a whole deserialize of the archive, in the order
\* the steps are laid down: context, public key, secret key, the optional
\* keys that have an entry, switch key attached, secondary context, primary
\* bootstrap key loaded, index list, per-index loads, binding
OrderedCalls ==
    <<"DeserializeCryptoContextFromBuffer", "DeserializePublicKeyFromBuffer",
      "DeserializePrivateKeyFromBuffer">>
        \o (IF HasEntry(multKeyFile)
            THEN <<"DeserializeEvalMultKeyFromBuffer">> ELSE <<>>)
        \o (IF HasEntry(rotKeyFile)
            THEN <<"DeserializeEvalAutomorphismKeyFromBuffer">> ELSE <<>>)
        \o <<"DeserializeSwkFC", "SetSwkFC",
             "DeserializeBinFHECryptoContextFromBuffer",
             "DeserializeBinFHERefreshKeyFromBuffer",
             "DeserializeBinFHESwitchingKeyFromBuffer", "BTKeyLoad",
             "DeserializeSeedSeqVector">>
        \o LoopCalls(Len(desLocal.indices))
        \o <<"SetBinCCForSchemeSwitch">>

CallCount(func) == Cardinality({k \in 1 .. Len(engineCalls) : engineCalls[k] = func})

\* C15: the engine operations deserialize has invoked are an initial part of
\* the ordered list of steps; SetBinCCForSchemeSwitch is invoked only after
\* BTKeyLoad and after BTKeyMapLoadSingleElement was invoked for every listed
\* index; and once a step has failed (the engine rejected what it was given)
\* deserialize has thrown, so no later step is invoked.
C15_StrictOrder ==
    /\ IsPrefix(engineCalls, OrderedCalls)
    /\ Invoked("SetBinCCForSchemeSwitch") =>
           /\ Invoked("BTKeyLoad")
           /\ Len(desLocal.indices) >= 1
           /\ CallCount("BTKeyMapLoadSingleElement") = Len(desLocal.indices)
           /\ DOMAIN des.binFHECryptoContext.BTKeyMap =
                  {desLocal.indices[k] : k \in 1 .. Len(desLocal.indices)}
           /\ engineCalls[Len(engineCalls)] = "SetBinCCForSchemeSwitch"
    /\ engineFaults > 0 => desPc = "threw"

\* ------------------------------------------------ claims: invariant I1
\* C16: after a Serialize that returned, all ten named buffers are present,
\* EvalKeyMappings is non-empty whenever the engine's bootstrap map is
\* non-empty, and the serialized index list holds the engine's indices in the
\* order the engine reported them.
C16_BundleComplete ==
    serResult = Returned =>
        /\ \A k \in 1 .. Len(NamedBuffers) :
               buffers[NamedBuffers[k].field] # Null
        /\ Len(engineKeys) > 0 => Len(buffers.EvalKeyMappings) > 0
        /\ SerializedIndices(buffers) = engineKeys

\* Serialize returned for an engine that reports its indices in descending
\* order
C16_Witness ==
    /\ serResult = Returned
    /\ Len(engineKeys) = 2
    /\ engineKeys[1] > engineKeys[2]
    /\ Len(buffers.EvalKeyMappings) >= 2

\* ------------------------------------------ claims: omission tolerance
\* the entries deserialize cannot do without, in the order it reads them
RequiredOrder ==
    <<cryptoContextFile, pubKeyFile, secretKeyFile, FHEWtoCKKSSwitchKeyFile,
      binFHECryptoContextFile, binFHEBootRefreshKeyFile, binFHEBootRotKeyFile,
      keyIndexFile>>

MissingRequired == {k \in 1 .. Len(RequiredOrder) : ~HasEntry(RequiredOrder[k])}

\* the first entry deserialize needs and the archive lacks
FirstMissing ==
    RequiredOrder[CHOOSE k \in MissingRequired :
                      \A j \in MissingRequired : k <= j]

\* C17: an archive packed from a bundle has no entry for a buffer that was
\* absent; uploadFile on an archive leaves absent (null) every named buffer
\* whose entry the archive lacks; and deserialize of such an archive fails
\* only where it needs the missing entry, with the error naming that entry.
C17_OmissionTolerance ==
    /\ (archiveFrom # "none" /\ dropped = {}) =>
           \A k \in 1 .. Len(NamedBuffers) :
               packedFrom[NamedBuffers[k].field] = Null =>
                   ~HasEntry(NamedBuffers[k].file)
    /\ uploadResult.kind = "Uploaded" =>
           \A k \in 1 .. Len(NamedBuffers) :
               ZipLookup(uploadResult.file, NamedBuffers[k].file) = Null =>
                   uploadResult.after[NamedBuffers[k].field] = Null
    /\ (desPc \in {"returned", "threw"} /\ engineFaults = 0
           /\ MissingRequired # {}) =>
           /\ desPc = "threw"
           /\ desError =
                  Error("Error: File " \o FirstMissing \o " not found in the zip")

\* ------------------------------------------------------ claims: packing
\* the archive is as createDownloadableFile built it
JustPacked == archiveFrom # "none" /\ dropped = {}

\* the archive zip has an entry under the fixed file name of a named buffer of
\* b exactly when that buffer is present, the entry holding the buffer
EntriesOfPresent(zip, b) ==
    \A k \in 1 .. Len(NamedBuffers) :
        LET buffer == b[NamedBuffers[k].field]
            file == NamedBuffers[k].file
        IN /\ file \in Names(zip) <=> buffer # Null
           /\ ZipLookup(zip, file) = buffer

\* C18: the archive createDownloadableFile built has an entry under the
\* fixed file name of a named buffer exactly when that buffer was present, the
\* entry holding the buffer; and for the bundle of any state, absent buffers
\* or not, createDownloadableFile yields such an archive.
C18_PackPresentBuffers ==
    /\ JustPacked => EntriesOfPresent(archive, packedFrom)
    /\ EntriesOfPresent(ZipOfBuffers(buffers), buffers)

\* a bundle that has a public key and no secret key was packed
C18_Witness ==
    /\ JustPacked
    /\ packedFrom.publicKeyBuffer # Null
    /\ packedFrom.secretKeyBuffer = Null
    /\ pubKeyFile \in Names(archive)
    /\ secretKeyFile \notin Names(archive)

\* ------------------------------------------------ claims: indexed names
BaseNames == {baseRefreshKeyFile, baseSwitchingKeyFile}

\* the name `<i>_<base>` of the naming convention
IndexedName(i, base) == ToString(i) \o "_" \o base

\* C19: the archive createDownloadableFile built stores pair i of the bundle
\* under `<i>_<baseRefreshFilename>` and `<i>_<baseSwitchingFilename>` and
\* holds no other entry beside the fixed ones; these are the two names
\* deserialize looks up for index i, where it finds the buffers of pair i; and
\* the names of distinct indices, and the two names of one index, differ.
C19_IndexedNaming ==
    /\ JustPacked =>
           /\ \A k \in 1 .. Len(packedFrom.EvalKeyMappings) :
                  LET pair == packedFrom.EvalKeyMappings[k]
                      i == Number(pair.key)
                  IN /\ ZipLookup(archive, IndexedName(i, baseRefreshKeyFile))
                            = pair.BSkey
                     /\ ZipLookup(archive, IndexedName(i, baseSwitchingKeyFile))
                            = pair.KSkey
                     /\ ZipLookup(archive, createMapFileNameDeserialize(
                                               i, baseRefreshKeyFile))
                            = pair.BSkey
                     /\ ZipLookup(archive, createMapFileNameDeserialize(
                                               i, baseSwitchingKeyFile))
                            = pair.KSkey
           /\ Names(archive) \ FixedNames =
                  {IndexedName(Number(packedFrom.EvalKeyMappings[k].key), base) :
                      k \in 1 .. Len(packedFrom.EvalKeyMappings),
                      base \in BaseNames}
    /\ \A i \in 0 .. MaxIndex, base \in BaseNames :
           createMapFileNameDeserialize(i, base) = IndexedName(i, base)
    /\ \A i, j \in 0 .. MaxIndex, base, other \in BaseNames :
           createMapFileNameDeserialize(i, base)
               = createMapFileNameDeserialize(j, other)
           => (i = j /\ base = other)

\* an archive with two bootstrap pairs was packed and deserialize has looked
\* up and loaded both
C19_Witness ==
    /\ JustPacked
    /\ Len(packedFrom.EvalKeyMappings) = 2
    /\ desPc = "returned"
    /\ CallCount("BTKeyMapLoadSingleElement") = 2

\* ------------------------------------------------ claims: optional keys
OptionalKeyFiles == {multKeyFile, rotKeyFile}

\* deserialize has run to its end, the engine accepting every entry, on the
\* archive of a complete bundle with at least one bootstrap entry that lacks
\* at most its multiplication-key and rotation-key entries
OnlyOptionalMissing ==
    /\ desPc \in {"returned", "threw"}
    /\ engineFaults = 0
    /\ Len(engineKeys) >= 1
    /\ \/ archiveFrom = "complete"
       \/ dropped # {} /\ dropped \subseteq OptionalKeyFiles

\* C20: with every other entry present and valid (the index list not empty),
\* deserialize returns whether or not the multiplication-key and rotation-key
\* entries exist, invokes the engine for each of the two exactly when its
\* entry is present, and the context then carries exactly the keys that were
\* present.
C20_OptionalKeys ==
    OnlyOptionalMissing =>
        /\ desPc = "returned"
        /\ Invoked("DeserializeEvalMultKeyFromBuffer") <=> HasEntry(multKeyFile)
        /\ Invoked("DeserializeEvalAutomorphismKeyFromBuffer")
               <=> HasEntry(rotKeyFile)
        /\ des.cryptoContext.EvalMultKey =
               (IF HasEntry(multKeyFile) THEN ser.cryptoContext.EvalMultKey
                ELSE Null)
        /\ des.cryptoContext.EvalAutomorphismKey =
               (IF HasEntry(rotKeyFile)
                THEN ser.cryptoContext.EvalAutomorphismKey ELSE Null)

\* deserialize returned on an archive without multiplication key and with
\* rotation key: the context carries the rotation key only
C20_Witness ==
    /\ OnlyOptionalMissing
    /\ dropped = {multKeyFile}
    /\ desPc = "returned"
    /\ des.cryptoContext.EvalMultKey = Null
    /\ des.cryptoContext.EvalAutomorphismKey = RotKey

\* ------------------------------------------- claims: error translation
\* what a caller sees of a value thrown inside a deserializer: an Error whose
\* message is the engine's message for a numeric identifier, never its digits,
\* and the text of the failure otherwise
Translated(caught, error) ==
    /\ error.kind = "Error"
    /\ IF caught.kind = "number"
       THEN /\ error.message = ExceptionMessage(caught.code)
            /\ error.message # ToString(caught.code)
       ELSE /\ caught.kind = "Error"
            /\ error.message = "Error: " \o caught.message

\* C21: when the engine throws an encoded numeric identifier during
\* deserialize (or deserializeInBackend), the call aborts with an Error whose
\* message is getExceptionMessage of that identifier, never the raw number; a
\* non-numeric failure is propagated as an Error as well. An aborted call is
\* at "threw" and runs no further step.
C21_EngineErrorTranslated ==
    /\ desPc = "threw" => Translated(desCaught, desError)
    /\ desPc # "threw" => desCaught = Null /\ desError = Null
    /\ backendPc = "threw" => Translated(backendCaught, backendError)
    /\ backendPc # "threw" => backendCaught = Null /\ backendError = Null

\* both deserializers aborted, one on a numeric identifier thrown by the
\* engine, the other on a failure that is no number
C21_Witness ==
    /\ desPc = "threw"
    /\ backendPc = "threw"
    /\ desCaught = ExceptionCode
    /\ backendCaught.kind = "Error"
    /\ engineCalls # <<>>

\* ------------------------------------------- claims: Serialize preconditions
\* the objects Serialize requires, in the order the claim lists them, each with
\* the name the error gives it
RequiredObjects ==
    << [field |-> "module", name |-> "OPENFHE module"],
       [field |-> "cryptoContext", name |-> "cryptoContext"],
       [field |-> "publicKey", name |-> "publicKey"],
       [field |-> "secretKey", name |-> "secretKey"],
       [field |-> "binFHECryptoContext", name |-> "binFHECryptoContext"],
       [field |-> "FHEWtoCKKSSwitchKey", name |-> "FHEWtoCKKSSwitchKey"] >>

\* the first of them that serializer s lacks
FirstNull(s) ==
    CHOOSE k \in 1 .. Len(RequiredObjects) :
        /\ s[RequiredObjects[k].field] = Null
        /\ \A j \in 1 .. k - 1 : s[RequiredObjects[j].field] # Null

PreconditionError(s) == Error(RequiredObjects[FirstNull(s)].name \o " is None")

\* the buffers a fully initialised serializer over the same engine ends with
FilledBuffers ==
    SerializeOutcome(EmptyBuffers,
                     NewSerializer(Module, EngineCC(engineKeys), PublicKey,
                                   SecretKey),
                     engineKeys, NoFail).buffers

\* C27: a Serialize call on a serializer whose module, cryptoContext,
\* publicKey, secretKey, binFHECryptoContext or FHEWtoCKKSSwitchKey is null
\* throws the error naming the first missing object in that order and leaves
\* every buffer and EvalKeyMappings as it was; no engine export takes part:
\* the outcome is the same whatever the engine's exports would return, and
\* whatever the buffers held before.
C27_PreconditionsFirst ==
    Uninitialised(ser) =>
        /\ serCalls > 0 =>
               /\ serResult = PreconditionError(ser)
               /\ buffers = buffersBefore
        /\ \A fail \in FailChoices(engineKeys) :
               \A b \in {buffers, EmptyBuffers, FilledBuffers} :
                   SerializeOutcome(b, ser, engineKeys, fail) =
                       Outcome(b, PreconditionError(ser))

\* Serialize was called on a serializer that has its module, context and
\* both keys but no secondary context
C27_Witness ==
    /\ serCalls > 0
    /\ ser.module # Null /\ ser.cryptoContext # Null
    /\ ser.publicKey # Null /\ ser.secretKey # Null
    /\ ser.binFHECryptoContext = Null
    /\ serResult = Error("binFHECryptoContext is None")
    /\ FilledBuffers # EmptyBuffers

\* ------------------------------------------- claims: the two deserializers
\* C28: given the same complete set of artifacts, once as archive entries and
\* once as files in the data directory, deserializeInBackend ends with the
\* same reconstructed state as deserialize: the same cryptoContext (with the
\* secondary context bound to it), publicKey, secretKey, attached switch key
\* and secondary context with its loaded bootstrap map.
C28_DeserializersAgree ==
    (/\ archiveFrom = "complete"
     /\ dropped = {}
     /\ desPc = "returned"
     /\ backendPc = "returned")
        => backend = des

\* ------------------------------------------- claims: downloads
\* the worker reported an error before downloadFileViaWorker's await ended
ErrorReported ==
    \E k \in 1 .. viaWorkerAt : delivered[k].type = "error"

\* C22: every failure of archive creation surfaces to the immediate caller:
\* when createDownloadableFile rejects, the promise of downloadFile rejects;
\* when the transfer rejects or the worker has reported an error, the promise
\* of downloadFileViaWorker rejects. Neither resolves as if the download had
\* succeeded.
C22_FailureSurfaces ==
    /\ (downloadPromise.state # "pending" /\ downloadFailed)
           => downloadPromise.state = "rejected"
    /\ (viaWorkerPromise.state # "pending"
           /\ (promise.state = "rejected" \/ ErrorReported))
           => viaWorkerPromise.state = "rejected"

\* ------------------------------------------- claims: liveness of the transfer
\* C23: if the worker delivers exactly one fileChunk for each index
\* 0 .. totalChunks-1 (totalChunks >= 1), in any order, and no error message,
\* then createDownloadableFileViaWorker eventually resolves; a fileCreated
\* message alone neither resolves nor rejects the operation.
C23_TransferResolves ==
    /\ (xferPc = "listening") ~> (promise.state = "fulfilled")
    /\ [][delivered' = Append(delivered, FileCreatedMsg) => promise' = promise]_vars

\* the transfer resolved after fileCreated came first and the chunks of the
\* largest archive came back to front
C23_Witness ==
    /\ xferPc = "listening"
    /\ totalChunks = MaxChunks
    /\ Len(delivered) = totalChunks + 1
    /\ delivered[1] = FileCreatedMsg
    /\ \A k \in 2 .. Len(delivered) :
           delivered[k] = FileChunkMsg(totalChunks + 1 - k, totalChunks)
    /\ promise.state = "fulfilled"

\* ------------------------------------------- claims: two transfers
\* C26: two transfers started on the same worker do not interfere: when the
\* second call is made before the first has settled, no chunk answering the
\* first request is placed into the second request's slot array, and the
\* first call's promise is settled once all its chunks have been delivered.
C26_NoInterference ==
    /\ \A k \in 1 .. Len(delivered2) : delivered2[k].req # 1
    /\ (xferPc = "listening" /\ SentIndices(1) = 0 .. totalChunks - 1)
           => promise.state # "pending"

\* ------------------------------------------- claims: number round trip
\* Number(string) of a string toFixed(3) produced
NumberOf(str) ==
    IF \E x \in -MaxNumber .. MaxNumber : toFixed3(x) = str
    THEN CHOOSE x \in -MaxNumber .. MaxNumber : toFixed3(x) = str
    ELSE MaxNumber + 1

\* C29: with an engine that loses nothing (Decrypt(Encrypt(v)) = v on the
\* packed vector), for every number n and slot count >= 1,
\* decodeNumberPlainText of the plaintext obtained from encryptNumber(n)
\* yields n: the value is read back from the slot padArray placed it in.
C29_NumberRoundTrip ==
    numPc = "decoded" => NumberOf(numDecoded) = numInput

\* ------------------------------------------- claims: the command line tool
\* the output was written
Written == cliPc = "ended" /\ endPromise.state = "fulfilled"

\* the field of input column k in the r-th line of the output
OutputField(r, k) == output.records[r][k]

\* the r-th input row's field of column k is as the tool must leave it:
\* untouched when the column is in the skip list or the field is empty, a
\* ciphertext string otherwise
FieldAsRequired(r, k) ==
    LET c == csvFile.header[k]
        in == csvFile.rows[r][c]
    IN IF c \in skipColumns \/ in.text = ""
       THEN OutputField(r, k) = in
       ELSE OutputField(r, k).kind = "CiphertextString"

\* C24: for every input row and every column named in the -k skip list, the
\* output row carries that column's original value unchanged; empty fields are
\* likewise left unchanged, and every other field is replaced by a ciphertext
\* string.
C24_SkipAndEmptyUnchanged ==
    Written =>
        \A r \in 1 .. Len(csvFile.rows) :
            \A k \in 1 .. Len(csvFile.header) : FieldAsRequired(r, k)

\* the same for the columns that are not called PRE_key
C24_OrdinaryColumns ==
    Written =>
        \A r \in 1 .. Len(csvFile.rows) :
            \A k \in 1 .. Len(csvFile.header) :
                csvFile.header[k] # "PRE_key" => FieldAsRequired(r, k)

\* the plaintext the tool encrypts for a field
PlaintextOf(in) ==
    IF IsNumeric(in.text) THEN <<NumberValue(in.text)>>
    ELSE padArrayForStringInput(stringToInt(in.text), DefaultSlots)

\* the r-th output line is the r-th input row: its untouched fields are that
\* row's, its ciphertexts are of that row's values and under key pair pair
LineOfRow(r, pair) ==
    \A k \in 1 .. Len(csvFile.header) :
        LET in == csvFile.rows[r][csvFile.header[k]]
            out == OutputField(r, k)
        IN \/ csvFile.header[k] = "PRE_key"
           \/ out = in
           \/ /\ out.kind = "CiphertextString"
              /\ out.of.under = pair.publicKey
              /\ out.of.plaintext.packed = PlaintextOf(in)

\* the PRE_key field of the r-th output line
PreKeyField(r) == output.records[r][Len(output.header)]

\* C25: each input row gets its own key pair, generated exactly once for
\* that row; all encrypted fields of the row are encrypted under that row's
\* key, the row's PRE_key is derived from that same key, and the output has
\* exactly one row with a PRE_key per input row, in input order.
C25_KeyPerRow ==
    /\ cliPc = "ended" =>
           /\ keyGens = Len(csvFile.rows)
           /\ Len(rowKeys) = Len(csvFile.rows)
           /\ \A r \in 1 .. Len(rowKeys) :
                  /\ \E k \in 1 .. keyGens : rowKeys[r] = generateKeyPair(k)
                  /\ \A q \in 1 .. Len(rowKeys) :
                         q # r => /\ rowKeys[q].publicKey # rowKeys[r].publicKey
                                  /\ rowKeys[q].secretKey # rowKeys[r].secretKey
    /\ cliPc # "ended" => keyGens = 0
    /\ Written =>
           /\ Len(output.records) = Len(csvFile.rows)
           /\ output.header[Len(output.header)] = "PRE_key"
           /\ \A r \in 1 .. Len(csvFile.rows) :
                  /\ LineOfRow(r, rowKeys[r])
                  /\ PreKeyField(r).kind = "BufferString"
                  /\ PreKeyField(r).of.content.from = rowKeys[r].secretKey
                  /\ PreKeyField(r).of.content.to = DataHolderPublicKey

\* a file of MaxRows rows was written, the first and the last row with a
\* ciphertext each, a column being skipped
C25_Witness ==
    /\ Written
    /\ Len(csvFile.rows) = MaxRows
    /\ skipColumns = {"PatientID"}
    /\ OutputField(1, 1) = Text("101")
    /\ OutputField(1, 2).kind = "CiphertextString"
    /\ OutputField(MaxRows, 2).kind = "CiphertextString"
    /\ OutputField(MaxRows, 2).of.under # OutputField(1, 2).of.under

\* C30: the promise returned by processCSV (and therefore main) does not
\* resolve before the output CSV has been written, and any failure while
\* encrypting a row, generating a PRE key or writing the output rejects it,
\* so that main's catch handler reports the error and exits with code 1.
C30_ProcessAwaitsOutput ==
    /\ processPromise.state = "fulfilled" => Written
    /\ (cliPc = "ended" /\ endPromise.state = "rejected")
           => /\ processPromise.state = "rejected"
              /\ mainExit = "exit 1"

====
